---- MODULE Spec2Model ----
(***************************************************************************)
(* A model of spgill-backup: the configuration model (model.py), the       *)
(* loading of the configuration (config.py), the profile resolver and      *)
(* argument synthesizer (helper.py) and the CLI commands that drive the    *)
(* snapshot engine (cli.py).                                               *)
(*                                                                         *)
(* Python values are represented as follows.                               *)
(*   str                  a TLA+ string                                    *)
(*   list[str]            a sequence of strings                            *)
(*   Optional[T]          None, or Some(v)                                 *)
(*   dict[str, T]         a function whose domain is the set of keys       *)
(*   an object of a class of model.py: a record of its fields              *)
(*   a mapping of the YAML document that stands where such an object is    *)
(*   expected: PyDict(m), which has items but none of the attributes       *)
(*   a str that the code iterates (include_files_from) is the sequence of  *)
(*   its one-character strings, so that iteration yields characters        *)
(***************************************************************************)
EXTENDS Integers, Sequences, FiniteSets, TLC

VARIABLES
    yaml,      \* the parsed YAML document the configuration was built from
    config,    \* the RootBackupConfiguration of this invocation
    fs,        \* the set of paths that exist on the file system
    job,       \* the jobs of the daemon's scheduler
    osenv,     \* os.environ of the tool's process
    inv,       \* the command line of this invocation (command and options)
    pc,        \* the position of the tool's process in its command
    procs,     \* the external processes launched so far, in launch order
    warned,    \* the number of warnings printed
    status,    \* "running", or how the tool's process ended
    ret        \* the value returned by the last function applied

vars ==
    <<yaml, config, fs, job, osenv, inv, pc, procs, warned, status, ret>>

----------------------------------------------------------------------------
(* Bounds of the model *)

\* the longest list a list-valued configuration field holds
MaxList == 1

----------------------------------------------------------------------------
(* Python values *)

None == [none |-> TRUE]
Some(v) == [none |-> FALSE, val |-> v]

\* a value of type str / int where the code distinguishes them by isinstance
StrV(s) == [type |-> "str", val |-> s]
IntV(n) == [type |-> "int", val |-> n]   \* n: the decimal digits

\* bool(x) for an Optional[str]
TruthyStr(o) == ~o.none /\ o.val # ""

\* bool(x) for an Optional[list] or Optional[dict]
TruthySeq(o) == ~o.none /\ o.val # <<>>

\* (x or []) for an Optional[list]
OrEmpty(o) == IF o.none THEN <<>> ELSE o.val

EmptyMap == [k \in {} |-> ""]

\* a dict that is iterated over is held as the sequence of its items,
\* <<key, value>> pairs with distinct keys, in the order in which the keys
\* were written: the keys of such a dict
Keys(d) == {d[j][1] : j \in DOMAIN d}

\* the values of such a dict by key, without the order of the keys
Mapping(d) == [k \in Keys(d) |-> d[CHOOSE j \in DOMAIN d : d[j][1] = k][2]]

\* {**a, **b}
Overlay(a, b) ==
    [k \in (DOMAIN a) \cup (DOMAIN b) |-> IF k \in DOMAIN b THEN b[k] ELSE a[k]]

\* the sequences over S of length at most n
SeqsUpTo(S, n) == UNION {[1..k -> S] : k \in 0..n}

\* the result of a function that may end the process through print_error
Ok(v) == [ok |-> TRUE, val |-> v]
Fail(msg) == [ok |-> FALSE, err |-> msg]

\* an uncaught exception: the process ends with a traceback
Raise(msg) == [ok |-> FALSE, err |-> msg, raised |-> TRUE]

\* how the process ends on a failed result
ExitStatus(r) == IF "raised" \in DOMAIN r THEN "raised" ELSE "exit1"

\* a dict that stands where an object of model.py is expected
PyDict(m) == [mapping |-> m]
IsDict(x) == DOMAIN x = {"mapping"}

\* bool(x) for a dict or an object of a dataclass: a dict is true when it has
\* items, an object always
TruthyObject(x) == IF IsDict(x) THEN DOMAIN x.mapping # {} ELSE TRUE

\* reading an attribute that the value does not have
AttributeError(type_name, attribute) ==
    Raise("AttributeError: '" \o type_name \o "' object has no attribute '"
            \o attribute \o "'")

----------------------------------------------------------------------------
(* model.py: the configuration model *)

SourceDefFields ==
    {"include", "include_files_from", "include_files_from_verbatim",
     "exclude", "iexclude", "exclude_if_present", "exclude_file",
     "iexclude_file", "exclude_caches", "exclude_larger_than"}

ProfileFields ==
    SourceDefFields \cup
    {"policy", "hostname", "archive_name", "tags", "groups", "args"}

\* the fields declared list[str]
ListFields ==
    {"include", "exclude", "iexclude", "exclude_if_present", "exclude_file",
     "iexclude_file"}

\* the fields declared Optional[list[str]]
OptListFields == {"tags", "args"}

\* the field defaults of BackupSourceDef
BackupSourceDef ==
    [include |-> <<>>,
     include_files_from |-> <<>>,
     include_files_from_verbatim |-> <<>>,
     exclude |-> <<>>,
     iexclude |-> <<>>,
     exclude_if_present |-> <<>>,
     exclude_file |-> <<>>,
     iexclude_file |-> <<>>,
     exclude_caches |-> FALSE,
     exclude_larger_than |-> StrV("")]

\* the field defaults of BackupProfile(BackupSourceDef)
BackupProfile ==
    [f \in ProfileFields |->
        IF f \in SourceDefFields THEN BackupSourceDef[f] ELSE None]

\* BackupSourceDef called with the keys of raw: the values given, stored as
\* they are, and the defaults for the rest; TypeError for a key that is not
\* a field
NewSourceDef(raw) ==
    IF ~(DOMAIN raw \subseteq SourceDefFields)
    THEN Raise("TypeError: __init__() got an unexpected keyword argument")
    ELSE Ok([f \in SourceDefFields |->
                IF f \in DOMAIN raw THEN raw[f] ELSE BackupSourceDef[f]])

\* BackupProfile called with the keys of raw: the values given, stored as
\* they are, and the defaults for the rest; TypeError for a key that is not
\* a field
NewProfile(raw) ==
    IF ~(DOMAIN raw \subseteq ProfileFields)
    THEN Raise("TypeError: __init__() got an unexpected keyword argument")
    ELSE Ok([f \in ProfileFields |->
                IF f \in DOMAIN raw THEN raw[f] ELSE BackupProfile[f]])

\* the field defaults of BackupLocation (path is required)
BackupLocation(path) ==
    [path |-> path, password_file |-> None, password_command |-> None,
     env |-> None, clean_env |-> None]

\* the field defaults of BackupPolicy (location is required)
BackupPolicy(location) ==
    [location |-> location, schedule |-> None, retention |-> None]

\* policy.location: None, a str, or a list[str]
LocNone == [type |-> "none"]
LocStr(s) == [type |-> "str", str |-> s]
LocList(l) == [type |-> "list", list |-> l]

\* the fields of RootBackupConfiguration, and those without a default
RootFields ==
    {"locations", "policies", "profiles", "global_profile", "archive",
     "cache", "v"}
RequiredRootFields == {"locations", "policies", "profiles"}

\* RootBackupConfiguration called with the keys of parsed: the values given,
\* stored as they are, and None for the rest; TypeError for a key that is
\* not a field and for a missing locations, policies or profiles
RootBackupConfiguration(parsed) ==
    IF ~(DOMAIN parsed \subseteq RootFields)
    THEN Raise("TypeError: __init__() got an unexpected keyword argument")
    ELSE IF ~(RequiredRootFields \subseteq DOMAIN parsed)
    THEN Raise("TypeError: __init__() missing required positional arguments")
    ELSE Ok([f \in RootFields |->
                IF f \in DOMAIN parsed THEN parsed[f] ELSE None])

----------------------------------------------------------------------------
(* helper.py: the profile resolver *)

\* print_error: the message is printed and the process exits with status 1
print_error(msg) == Fail(msg)

\* get_location: the location of that name, or an error exit when the
\* lookup gives nothing or a value that is false
get_location(cfg, name) ==
    IF name \notin DOMAIN cfg.locations \/ ~TruthyObject(cfg.locations[name])
    THEN print_error("No backup location found")
    ELSE Ok(cfg.locations[name])

\* profile.dict(exclude_defaults=True): neither the dataclasses of model.py
\* nor a dict have an attribute of that name
ProfileDict(p) ==
    AttributeError(IF IsDict(p) THEN "dict" ELSE "BackupProfile", "dict")

\* mergedeep's Strategy.ADDITIVE for a key present on both sides: two lists
\* are joined, anything else is replaced by the source's value
HandleMergeAdditive(f, dst, src) ==
    IF f \in ListFields THEN dst \o src
    ELSE IF f \in OptListFields THEN Some(dst.val \o src.val)
    ELSE src

\* mergedeep.merge of two serialized source definitions
MergeSourceDefDict(dst, src) ==
    [f \in (DOMAIN dst) \cup (DOMAIN src) |->
        IF f \notin DOMAIN src THEN dst[f]
        ELSE IF f \notin DOMAIN dst THEN src[f]
        ELSE HandleMergeAdditive(f, dst[f], src[f])]

\* mergedeep.merge of two serialized group maps: mappings are merged key by
\* key, recursively
MergeGroupsDict(dst, src) ==
    [n \in (DOMAIN dst) \cup (DOMAIN src) |->
        IF n \notin DOMAIN src THEN dst[n]
        ELSE IF n \notin DOMAIN dst THEN src[n]
        ELSE MergeSourceDefDict(dst[n], src[n])]

\* mergedeep.merge({}, global_dict, profile_dict, strategy=ADDITIVE)
MergeDeepAdditive(global_dict, profile_dict) ==
    [f \in (DOMAIN global_dict) \cup (DOMAIN profile_dict) |->
        IF f \notin DOMAIN profile_dict THEN global_dict[f]
        ELSE IF f \notin DOMAIN global_dict THEN profile_dict[f]
        ELSE IF f = "groups"
        THEN Some(MergeGroupsDict(global_dict[f].val, profile_dict[f].val))
        ELSE HandleMergeAdditive(f, global_dict[f], profile_dict[f])]

\* BackupProfile called with the keys of merged_dict: the values of the dict
\* as they are, a group stays the dict it is
ProfileFromDict(d) == NewProfile(d)

\* a faulty variant of merge_with_global_profile: the profile is returned as
\* it is configured, without the serialization and the merge
merge_with_global_profile_unmerged(cfg, profile) == Ok(profile)

\* merge_with_global_profile: the global profile is serialized first, when
\* there is one, then the profile; the serialization raises, so that the
\* merge is never reached
merge_with_global_profile(cfg, profile) ==
    LET global_dict ==
            IF cfg.global_profile.none THEN Ok(EmptyMap)
            ELSE ProfileDict(cfg.global_profile.val)
        profile_dict == ProfileDict(profile)
    IN  IF ~global_dict.ok THEN global_dict
        ELSE IF ~profile_dict.ok THEN profile_dict
        ELSE ProfileFromDict(MergeDeepAdditive(global_dict.val,
                                               profile_dict.val))

\* get_profile: an error exit when the lookup gives nothing or a value that
\* is false, and when the profile as configured has no policy; otherwise
\* what merge_with_global_profile returns or raises
get_profile(cfg, name) ==
    IF name \notin DOMAIN cfg.profiles \/ ~TruthyObject(cfg.profiles[name])
    THEN print_error("No backup profile found")
    ELSE IF IsDict(cfg.profiles[name])
    THEN AttributeError("dict", "policy")
    ELSE IF ~TruthyStr(cfg.profiles[name].policy)
    THEN print_error("Backup profile has no policy defined")
    ELSE merge_with_global_profile(cfg, cfg.profiles[name])

\* get_policy: the policy of that name, or an error exit
get_policy(cfg, name) ==
    IF name \notin DOMAIN cfg.policies \/ ~TruthyObject(cfg.policies[name])
    THEN print_error("No backup policy found")
    ELSE IF IsDict(cfg.policies[name])
    THEN AttributeError("dict", "location")
    ELSE IF \/ cfg.policies[name].location.type = "none"
            \/ /\ cfg.policies[name].location.type = "str"
               /\ cfg.policies[name].location.str = ""
            \/ /\ cfg.policies[name].location.type = "list"
               /\ cfg.policies[name].location.list = <<>>
    THEN print_error("Policy has no location defined")
    ELSE Ok(cfg.policies[name])

\* get_policy_locations: a single name becomes a one-element list
get_policy_locations(policy) ==
    IF policy.location.type = "str"
    THEN <<policy.location.str>>
    ELSE policy.location.list

----------------------------------------------------------------------------
(* helper.py: paths. A pathlib.Path is held as its root ("" for a relative  *)
(* path) and its components.                                                *)

Home == "/home"
Cwd == "/cwd"

\* the components of the path string s from position i on, cur being the
\* component read so far: empty components and "." are dropped
RECURSIVE PathParts(_, _, _)
PathParts(s, i, cur) ==
    LET done == IF cur \in {"", "."} THEN <<>> ELSE <<cur>>
    IN  IF i > Len(s) THEN done
        ELSE IF SubSeq(s, i, i) = "/" THEN done \o PathParts(s, i + 1, "")
        ELSE PathParts(s, i + 1, cur \o SubSeq(s, i, i))

\* s begins with the string p
StartsWith(s, p) == Len(s) >= Len(p) /\ SubSeq(s, 1, Len(p)) = p

\* pathlib.Path(s): exactly two leading slashes are kept as the root, any
\* other number of them is the root "/"
Path(s) ==
    [root |-> IF StartsWith(s, "//") /\ ~StartsWith(s, "///") THEN "//"
              ELSE IF StartsWith(s, "/") THEN "/"
              ELSE "",
     parts |-> PathParts(s, 1, "")]

\* "/".join(parts)
RECURSIVE JoinSlash(_)
JoinSlash(parts) ==
    IF parts = <<>> THEN ""
    ELSE IF Len(parts) = 1 THEN parts[1]
    ELSE parts[1] \o "/" \o JoinSlash(Tail(parts))

\* str(path)
PathStr(p) ==
    IF p.parts = <<>> THEN (IF p.root = "" THEN "." ELSE p.root)
    ELSE p.root \o JoinSlash(p.parts)

\* pathlib.Path.expanduser: a relative path whose first component is "~"
\* has it replaced by the home directory; a first component "~name" names a
\* user, and RuntimeError is raised when there is no such user, which is the
\* case for every name a path of the model holds
expanduser(p) ==
    IF p.root = "" /\ p.parts # <<>> /\ StartsWith(p.parts[1], "~")
    THEN IF p.parts[1] = "~"
         THEN Ok([root |-> Path(Home).root,
                  parts |-> Path(Home).parts \o Tail(p.parts)])
         ELSE Raise("RuntimeError: Could not determine home directory.")
    ELSE Ok(p)

\* pathlib.Path.absolute: a relative path is anchored at the working directory
absolute(p) ==
    IF p.root # "" THEN p
    ELSE [root |-> Path(Cwd).root, parts |-> Path(Cwd).parts \o p.parts]

\* F applied to the value of v: the value is computed once and handed on,
\* as in the chain pathlib.Path(path).expanduser().absolute()
Apply(F(_), v) == CHOOSE r \in {F(x) : x \in {v}} : TRUE

\* fully_qualified_path: the normalized path, or an error exit when it must
\* exist and does not
fully_qualified_path(fsys, path, ensure_exists) ==
    Apply(LAMBDA expanded :
            IF ~expanded.ok THEN expanded
            ELSE Apply(LAMBDA normalized :
                        IF ensure_exists /\ normalized \notin fsys
                        THEN print_error("File path does not exist")
                        ELSE Ok(normalized),
                       PathStr(Apply(absolute, expanded.val))),
          Apply(expanduser, Path(path)))

----------------------------------------------------------------------------
(* helper.py: the argument synthesizer *)

\* a faulty variant of location_option_names: the source flags are spelled
\* like the destination flags
location_option_names_unprefixed ==
    [repo |-> [from |-> "--repo", to |-> "--repo"],
     password_file |-> [from |-> "--password-file", to |-> "--password-file"],
     password_command |->
        [from |-> "--password-command", to |-> "--password-command"]]

\* the location option flags, for the source ("from") and the destination
location_option_names ==
    [repo |-> [from |-> "--from-repo", to |-> "--repo"],
     password_file |->
        [from |-> "--from-password-file", to |-> "--password-file"],
     password_command |->
        [from |-> "--from-password-command", to |-> "--password-command"]]

\* a faulty variant of cache_args: the cache arguments are generated for
\* source repos too
cache_args_both_sides(cfg, from_repo) ==
    IF TruthyStr(cfg.cache)
    THEN <<"--cache-dir", cfg.cache.val>>
    ELSE <<"--no-cache">>

\* the cache arguments of get_location_arguments: only for destination repos
cache_args(cfg, from_repo) ==
    IF ~from_repo
    THEN IF TruthyStr(cfg.cache)
         THEN <<"--cache-dir", cfg.cache.val>>
         ELSE <<"--no-cache">>
    ELSE <<>>

\* a faulty variant of password_args: the password command is looked at before
\* the password file
password_args_command_first(fsys, location, option_key) ==
    IF TruthyStr(location.password_command)
    THEN Ok(<<location_option_names.password_command[option_key],
              location.password_command.val>>)
    ELSE IF TruthyStr(location.password_file)
    THEN LET password_file_path ==
                fully_qualified_path(fsys, location.password_file.val, TRUE)
         IN  IF ~password_file_path.ok THEN password_file_path
             ELSE Ok(<<location_option_names.password_file[option_key],
                       password_file_path.val>>)
    ELSE Ok(<<>>)

\* the password arguments of get_location_arguments
password_args(fsys, location, option_key) ==
    IF TruthyStr(location.password_file)
    THEN LET password_file_path ==
                fully_qualified_path(fsys, location.password_file.val, TRUE)
         IN  IF ~password_file_path.ok THEN password_file_path
             ELSE Ok(<<location_option_names.password_file[option_key],
                       password_file_path.val>>)
    ELSE IF TruthyStr(location.password_command)
    THEN Ok(<<location_option_names.password_command[option_key],
              location.password_command.val>>)
    ELSE Ok(<<>>)

\* get_location_arguments: cache arguments, password arguments, repo flag and
\* path; the first attribute read of the location is password_file
get_location_arguments(cfg, fsys, location_name, from_repo) ==
    LET location == get_location(cfg, location_name)
        option_key == IF from_repo THEN "from" ELSE "to"
    IN  IF ~location.ok THEN location
        ELSE IF IsDict(location.val)
        THEN AttributeError("dict", "password_file")
        ELSE LET pw == password_args(fsys, location.val, option_key)
             IN  IF ~pw.ok THEN pw
                 ELSE Ok(cache_args(cfg, from_repo)
                         \o pw.val
                         \o <<location_option_names.repo[option_key],
                              location.val.path>>)

\* the warnings get_location_arguments prints: one when the location has
\* neither a password file nor a password command
location_arguments_warnings(cfg, location_name) ==
    IF /\ get_location(cfg, location_name).ok
       /\ ~IsDict(cfg.locations[location_name])
       /\ ~TruthyStr(cfg.locations[location_name].password_file)
       /\ ~TruthyStr(cfg.locations[location_name].password_command)
    THEN 1 ELSE 0

\* a generator that has yielded these tokens and ended
Yield(tokens) == [ok |-> TRUE, val |-> tokens]

\* a generator that has yielded these tokens and was ended by the failure r
Stopped(r, tokens) ==
    IF "raised" \in DOMAIN r
    THEN [ok |-> FALSE, err |-> r.err, raised |-> TRUE, val |-> tokens]
    ELSE [ok |-> FALSE, err |-> r.err, val |-> tokens]

\* a generator followed by another: the second runs when the first ended
\* without a failure
Then(a, b) == IF ~a.ok THEN a ELSE [b EXCEPT !.val = a.val \o b.val]

\* "for entry in entries: yield flag; yield entry"
RECURSIVE FlagPairs(_, _)
FlagPairs(flag, entries) ==
    IF entries = <<>> THEN <<>>
    ELSE <<flag, Head(entries)>> \o FlagPairs(flag, Tail(entries))

\* "for entry in entries: yield flag; yield str(fully_qualified_path(entry,
\* True))": the flag is yielded before the path is checked
RECURSIVE PathFlagPairs(_, _, _)
PathFlagPairs(fsys, flag, entries) ==
    IF entries = <<>> THEN Yield(<<>>)
    ELSE LET path == fully_qualified_path(fsys, Head(entries), TRUE)
         IN  IF ~path.ok
             THEN Stopped(path, <<flag>>)
             ELSE Then(Yield(<<flag, path.val>>),
                       PathFlagPairs(fsys, flag, Tail(entries)))

\* bool(x) of a str or int value
TruthyValue(v) == IF v.type = "str" THEN v.val # "" ELSE v.val # "0"

\* the exclude_larger_than part of get_inclusion_arguments: an error exit
\* for a value that is not a str
exclude_larger_than_tokens(exclude_size) ==
    IF ~TruthyValue(exclude_size) THEN Yield(<<>>)
    ELSE IF exclude_size.type # "str"
    THEN Stopped(
            print_error("Option 'exclude_larger_than' should always be a string"),
            <<>>)
    ELSE Yield(<<"--exclude-larger-than", exclude_size.val>>)

\* the tokens get_inclusion_arguments yields for a resolved profile: the
\* flagged entries field by field, then the collected include entries
inclusion_tokens(fsys, profile) ==
    LET include_list == profile.include
    IN
    Then(PathFlagPairs(fsys, "--files-from", profile.include_files_from),
    Then(PathFlagPairs(fsys, "--files-from-verbatim",
                       profile.include_files_from_verbatim),
    Then(Yield(FlagPairs("--exclude", profile.exclude)),
    Then(Yield(FlagPairs("--iexclude", profile.iexclude)),
    Then(Yield(FlagPairs("--exclude-if-present", profile.exclude_if_present)),
    Then(PathFlagPairs(fsys, "--exclude-file", profile.exclude_file),
    Then(PathFlagPairs(fsys, "--iexclude-file", profile.iexclude_file),
    Then(Yield(IF profile.exclude_caches
               THEN <<"--exclude-caches">> ELSE <<>>),
    Then(exclude_larger_than_tokens(profile.exclude_larger_than),
         Yield(include_list))))))))))

\* a faulty variant of get_inclusion_arguments: when get_profile fails, the
\* generator ends without a token and without the failure
get_inclusion_arguments_lenient(cfg, fsys, profile_name, group_names) ==
    LET profile == get_profile(cfg, profile_name)
    IN  IF ~profile.ok
        THEN Yield(<<>>)
        ELSE inclusion_tokens(fsys, profile.val)

\* get_inclusion_arguments: get_profile is called before the first token is
\* yielded, then come the inclusion tokens of the profile it returned;
\* group_names is not read
get_inclusion_arguments(cfg, fsys, profile_name, group_names) ==
    LET profile == get_profile(cfg, profile_name)
    IN  IF ~profile.ok
        THEN Stopped(profile, <<>>)
        ELSE inclusion_tokens(fsys, profile.val)

\* (x or {}) for an Optional[dict]
OrEmptyDict(o) == IF o.none THEN <<>> ELSE o.val

\* get_execution_env: the process environment overlaid with the location's
\* env; the environment of a process has no order
get_execution_env(cfg, environ, location_name) ==
    LET location == get_location(cfg, location_name)
    IN  IF ~location.ok THEN location
        ELSE IF IsDict(location.val) THEN AttributeError("dict", "env")
        ELSE Ok(Overlay(environ, Mapping(OrEmptyDict(location.val.env))))

\* validate_two_repo_operation: an error exit for the same location twice and
\* for two locations whose env maps share a key
validate_two_repo_operation(cfg, location_a_name, location_b_name) ==
    IF location_a_name = location_b_name
    THEN print_error("You can't perform this operation on the same backup location")
    ELSE LET location_a == get_location(cfg, location_a_name)
             location_b == get_location(cfg, location_b_name)
         IN  IF ~location_a.ok THEN location_a
             ELSE IF IsDict(location_a.val) THEN AttributeError("dict", "env")
             ELSE IF ~location_b.ok THEN location_b
             ELSE IF IsDict(location_b.val) THEN AttributeError("dict", "env")
             ELSE LET location_a_env == OrEmptyDict(location_a.val.env)
                      location_b_env == OrEmptyDict(location_b.val.env)
                      intersection ==
                        {k \in Keys(location_a_env) : k \in Keys(location_b_env)}
                  IN  IF Cardinality(intersection) > 0
                      THEN print_error("These backup locations are incompatible")
                      ELSE Ok(None)

\* the field defaults of BackupRetention; an int is held as its digits
BackupRetention ==
    [keep_last |-> None, keep_within |-> None, keep_hourly |-> None,
     keep_daily |-> None, keep_weekly |-> None, keep_monthly |-> None,
     keep_yearly |-> None]

\* bool(x) for an Optional[int]
TruthyInt(o) == ~o.none /\ o.val # "0"

\* get_retention_arguments: a flag and the field's value, as it is held, for
\* every retention field that is truthy
get_retention_arguments(cfg, policy) ==
    IF policy.retention.none THEN <<>>
    ELSE LET retention == policy.retention.val
         IN  (IF TruthyInt(retention.keep_last)
              THEN <<StrV("--keep-last"), IntV(retention.keep_last.val)>>
              ELSE <<>>)
          \o (IF TruthyStr(retention.keep_within)
              THEN <<StrV("--keep-within"), StrV(retention.keep_within.val)>>
              ELSE <<>>)
          \o (IF TruthyInt(retention.keep_hourly)
              THEN <<StrV("--keep-hourly"), IntV(retention.keep_hourly.val)>>
              ELSE <<>>)
          \o (IF TruthyInt(retention.keep_daily)
              THEN <<StrV("--keep-daily"), IntV(retention.keep_daily.val)>>
              ELSE <<>>)
          \o (IF TruthyInt(retention.keep_weekly)
              THEN <<StrV("--keep-weekly"), IntV(retention.keep_weekly.val)>>
              ELSE <<>>)
          \o (IF TruthyInt(retention.keep_monthly)
              THEN <<StrV("--keep-monthly"), IntV(retention.keep_monthly.val)>>
              ELSE <<>>)
          \o (IF TruthyInt(retention.keep_yearly)
              THEN <<StrV("--keep-yearly"), IntV(retention.keep_yearly.val)>>
              ELSE <<>>)

\* the warnings get_retention_arguments prints: one for a policy without
\* retention
retention_arguments_warnings(policy) == IF policy.retention.none THEN 1 ELSE 0

\* ",".join(items)
RECURSIVE JoinComma(_)
JoinComma(items) ==
    IF items = <<>> THEN ""
    ELSE IF Len(items) = 1 THEN items[1]
    ELSE items[1] \o "," \o JoinComma(Tail(items))

\* get_tag_arguments: what get_profile raises or exits with, or one --tag
\* flag with the comma-joined tags of the profile it returned
get_tag_arguments(cfg, profile_name) ==
    LET profile == get_profile(cfg, profile_name)
    IN  IF ~profile.ok THEN profile
        ELSE IF TruthySeq(profile.val.tags)
        THEN Ok(<<"--tag", JoinComma(profile.val.tags.val)>>)
        ELSE Ok(<<>>)

\* get_hostname_arguments
get_hostname_arguments(profile) ==
    IF TruthyStr(profile.hostname)
    THEN <<"--host", profile.hostname.val>>
    ELSE <<>>

----------------------------------------------------------------------------
(* helper.py: the polite executor *)

\* foreground_ok_codes
foreground_ok_codes == {0, 1, 2, 3, 10, 11, 130}

\* an external process as sh starts it, with its arguments, its environment
\* and the exit codes that count as success; code is the exit code of the
\* process once it has exited
StartedProcess(program, args, env, ok_codes) ==
    [program |-> program, args |-> args, env |-> env, ok_codes |-> ok_codes,
     state |-> "running", code |-> 0]

\* run_command_politely: the default of ok_codes
default_ok_codes == {0}

\* running_proc.wait() returns once the process has exited
wait_returns(proc) == proc.state # "running"

\* a faulty variant of raises_error_return_code: every exit code is accepted
raises_error_return_code_never(proc) == FALSE

\* wait() raises ErrorReturnCode for an exit code outside ok_codes
raises_error_return_code(proc) == proc.code \notin proc.ok_codes

\* a faulty variant of kill_if_alive: the child is left as it is
kill_if_alive_never(proc) == proc

\* run_command_politely: "if running_proc.is_alive(): running_proc.kill()"
kill_if_alive(proc) ==
    [proc EXCEPT !.state = IF @ = "running" THEN "killed" ELSE @]

----------------------------------------------------------------------------
(* config.py: loading the configuration. A document is held as the mapping  *)
(* of its top-level keys; the value of a key that may be null is None or    *)
(* Some(v).                                                                 *)

CURRENT_CONFIG_VERSION == 4

\* default_config_path, with its ~ expanded
ConfigPath == PathStr(expanduser(Path("~/.spgill.backup.yaml")).val)

\* _default_config_contents
default_config_contents ==
    [v |-> Some(CURRENT_CONFIG_VERSION), locations |-> EmptyMap,
     policies |-> EmptyMap, profiles |-> EmptyMap]

\* load_config_values: a configuration file that does not exist is created
\* with the default contents; file is None or the document the file holds
config_file_contents(file) ==
    IF file.none THEN default_config_contents ELSE file.val

\* yaml.load: the mappings that describe a location, a policy, a profile,
\* the global profile and the archive configuration are dicts
yaml_load(doc) ==
    [k \in DOMAIN doc |->
        IF k \in RequiredRootFields
        THEN [n \in DOMAIN doc[k] |-> PyDict(doc[k][n])]
        ELSE IF k \in {"global_profile", "archive"} /\ ~doc[k].none
        THEN Some(PyDict(doc[k].val))
        ELSE doc[k]]

\* load_config_values: RootBackupConfiguration is called with the keys of
\* parsed and converts nothing: the values of locations, policies and
\* profiles, the global profile and the archive configuration stay the dicts
\* yaml.load made
load_config_values(file) ==
    RootBackupConfiguration(yaml_load(config_file_contents(file)))

\* the warnings load_config_values prints: one for a version below the
\* current one
load_config_values_warnings(file) ==
    LET instance == load_config_values(file)
    IN  IF /\ instance.ok
           /\ ~instance.val.v.none
           /\ instance.val.v.val < CURRENT_CONFIG_VERSION
        THEN 1 ELSE 0

\* the configuration of a caller that builds it from the classes of
\* model.py: every profile of the document is a BackupProfile, and the
\* locations, policies, retentions and groups are objects of their classes
ModelObjects(doc) ==
    RootBackupConfiguration(
        [k \in DOMAIN doc |->
            IF k = "profiles"
            THEN [n \in DOMAIN doc[k] |-> NewProfile(doc[k][n]).val]
            ELSE IF k = "global_profile" /\ ~doc[k].none
            THEN Some(NewProfile(doc[k].val).val)
            ELSE doc[k]]).val

----------------------------------------------------------------------------
(* cli.py: the commands, each up to the start of its first process *)


\* the first lines of every command that works on a profile: the resolved
\* profile, its policy and the policy's locations. get_profile returns for
\* no configuration, so that the command ends on this line
resolve_profile_policy(cfg, name) ==
    LET profile == get_profile(cfg, name)
    IN  IF ~profile.ok THEN profile
        ELSE IF ~TruthyStr(profile.val.policy)
        THEN Raise("AssertionError")
        ELSE LET policy == get_policy(cfg, profile.val.policy.val)
             IN  IF ~policy.ok THEN policy
                 ELSE Ok([profile |-> profile.val,
                          policy |-> policy.val,
                          locations |-> get_policy_locations(policy.val)])

\* app_run, "Construct the restic args": the arguments of the backup
backup_args(cfg, fsys, name, groups, dry_run, profile, primary_location_name) ==
    LET location == get_location_arguments(cfg, fsys, primary_location_name,
                                           FALSE)
        tag == get_tag_arguments(cfg, name)
        inclusion == get_inclusion_arguments(cfg, fsys, name, groups)
    IN  IF ~location.ok THEN location
        ELSE IF ~tag.ok THEN tag
        ELSE IF ~inclusion.ok THEN inclusion
        ELSE Ok(location.val
                \o <<"backup">>
                \o get_hostname_arguments(profile)
                \o tag.val
                \o inclusion.val
                \o OrEmpty(profile.args)
                \o (IF dry_run THEN <<"--dry-run">> ELSE <<>>))

\* app_run up to the start of the backup: the process to start, or how the
\* command fails before it
run_prepare(cfg, fsys, environ, i) ==
    LET r == resolve_profile_policy(cfg, i.name)
    IN  IF ~r.ok THEN r
        ELSE LET primary_location_name == r.val.locations[1]
                 args == backup_args(cfg, fsys, i.name, i.groups, i.dry_run,
                                     r.val.profile, primary_location_name)
                 primary_location_env ==
                    get_execution_env(cfg, environ, primary_location_name)
             IN  IF ~args.ok THEN args
                 ELSE IF ~primary_location_env.ok THEN primary_location_env
                 ELSE Ok(StartedProcess("restic", args.val,
                                        primary_location_env.val, {0, 3}))

\* the warnings app_run prints up to the start of the backup
run_prepare_warnings(cfg, i) ==
    LET r == resolve_profile_policy(cfg, i.name)
    IN  IF ~r.ok THEN 0
        ELSE location_arguments_warnings(cfg, r.val.locations[1])

\* sh passes every argument to the program as str(argument)
sh_args(args) == [k \in 1..Len(args) |-> args[k].val]

\* (override or default) for an Optional[str]
OrStr(o, default) == IF TruthyStr(o) THEN o.val ELSE default

\* app_snapshots up to the start of restic
snapshots_prepare(cfg, fsys, environ, i) ==
    LET r == resolve_profile_policy(cfg, i.name)
    IN  IF ~r.ok THEN r
        ELSE LET location_name == OrStr(i.location_override, r.val.locations[1])
                 location == get_location_arguments(cfg, fsys, location_name,
                                                    FALSE)
                 tag == get_tag_arguments(cfg, i.name)
                 env == get_execution_env(cfg, environ, location_name)
             IN  IF ~location.ok THEN location
                 ELSE IF ~tag.ok THEN tag
                 ELSE Ok(StartedProcess(
                            "restic",
                            location.val \o <<"snapshots">> \o tag.val
                                \o (IF i.json THEN <<"--json">> ELSE <<>>),
                            env.val, foreground_ok_codes))

\* app_mount up to the start of restic
mount_prepare(cfg, fsys, environ, i) ==
    IF i.mount_point \notin fsys
    THEN print_error("Mount point does not exist")
    ELSE LET r == resolve_profile_policy(cfg, i.name)
         IN  IF ~r.ok THEN r
             ELSE LET location_name ==
                        OrStr(i.location_name, r.val.locations[1])
                      location_env ==
                        get_execution_env(cfg, environ, location_name)
                      location == get_location_arguments(cfg, fsys,
                                                         location_name, FALSE)
                      tag == get_tag_arguments(cfg, i.name)
                  IN  IF ~location_env.ok THEN location_env
                      ELSE IF ~location.ok THEN location
                      ELSE IF ~tag.ok THEN tag
                      ELSE Ok(StartedProcess(
                                "restic",
                                location.val \o <<"mount">> \o tag.val
                                    \o <<i.mount_point>>,
                                location_env.val, foreground_ok_codes))

\* app_apply: the locations the retention policy is applied to
apply_locations(i, policy_locations) ==
    IF TruthySeq(i.locations_override) THEN i.locations_override.val
    ELSE policy_locations

\* app_apply, one pass of the loop up to the start of restic
apply_prepare(cfg, fsys, environ, i, policy, location_name) ==
    LET location == get_location_arguments(cfg, fsys, location_name, FALSE)
        tag == get_tag_arguments(cfg, i.name)
        env == get_execution_env(cfg, environ, location_name)
    IN  IF ~location.ok THEN location
        ELSE IF ~tag.ok THEN tag
        ELSE Ok(StartedProcess(
                    "restic",
                    location.val \o <<"forget", "--group-by", "">> \o tag.val
                        \o sh_args(get_retention_arguments(cfg, policy))
                        \o (IF i.dry_run THEN <<"--dry-run">> ELSE <<>>)
                        \o (IF i.prune THEN <<"--prune">> ELSE <<>>),
                    env.val, {0}))

\* app_archive up to the start of the first snapshot query
archive_prepare(cfg, fsys, environ, i) ==
    IF ~i.tools_available
    THEN print_error("Cannot find commands required for archive operation")
    ELSE LET r == resolve_profile_policy(cfg, i.name)
         IN  IF ~r.ok THEN r
             ELSE LET location_name ==
                        OrStr(i.location_override, r.val.locations[1])
                      location_args ==
                        get_location_arguments(cfg, fsys, location_name, FALSE)
                      location_env ==
                        get_execution_env(cfg, environ, location_name)
                      encryption_password_value ==
                        IF TruthyStr(i.password) THEN i.password
                        ELSE IF cfg.archive.none THEN None
                        ELSE Some(cfg.archive.val.password_file)
                      snapshots ==
                        IF Len(i.snapshots) = 0 THEN <<"latest">>
                        ELSE i.snapshots
                  IN  IF ~location_args.ok THEN location_args
                      ELSE IF i.destination \notin fsys
                      THEN print_error("Destination directory does not exist")
                      ELSE IF i.encrypt /\ ~TruthyStr(encryption_password_value)
                      THEN print_error("a password has not been provided")
                      ELSE Ok(StartedProcess(
                                "restic",
                                location_args.val
                                    \o <<"--quiet", "snapshots", snapshots[1],
                                         "--json">>,
                                location_env.val, {0}))


\* app_apply up to the start of restic for the first location
apply_start(cfg, fsys, environ, i) ==
    LET r == resolve_profile_policy(cfg, i.name)
    IN  IF ~r.ok THEN r
        ELSE apply_prepare(cfg, fsys, environ, i, r.val.policy,
                           apply_locations(i, r.val.locations)[1])

\* the warnings app_apply prints up to the start of restic for the first
\* location: that of get_location_arguments, and that of
\* get_retention_arguments once the location and tag arguments are built
apply_warnings(cfg, fsys, i) ==
    LET r == resolve_profile_policy(cfg, i.name)
    IN  IF ~r.ok THEN 0
        ELSE LET location_name == apply_locations(i, r.val.locations)[1]
             IN  location_arguments_warnings(cfg, location_name)
                 + (IF /\ get_location_arguments(cfg, fsys, location_name,
                                                 FALSE).ok
                       /\ get_tag_arguments(cfg, i.name).ok
                    THEN retention_arguments_warnings(r.val.policy)
                    ELSE 0)

\* app_execute up to the start of restic
execute_prepare(cfg, fsys, environ, i) ==
    LET location == get_location_arguments(cfg, fsys, i.location_name, FALSE)
        env == get_execution_env(cfg, environ, i.location_name)
    IN  IF ~location.ok THEN location
        ELSE IF ~env.ok THEN env
        ELSE Ok(StartedProcess("restic", location.val \o i.args, env.val,
                               foreground_ok_codes))

\* app_execute: how the command ends once restic has returned; the exit code
\* of an ErrorReturnCode is passed through, any other return ends the
\* command normally
execute_exit(proc) ==
    IF raises_error_return_code(proc) THEN "exit" \o ToString(proc.code)
    ELSE "exit0"

\* app_copy up to the start of restic
copy_command_prepare(cfg, fsys, environ, i) ==
    LET valid == validate_two_repo_operation(cfg, i.source, i.destination)
        source_args == get_location_arguments(cfg, fsys, i.source, TRUE)
        destination_args ==
            get_location_arguments(cfg, fsys, i.destination, FALSE)
        source_env == get_execution_env(cfg, environ, i.source)
        destination_env == get_execution_env(cfg, environ, i.destination)
    IN  IF ~valid.ok THEN valid
        ELSE IF ~source_args.ok THEN source_args
        ELSE IF ~destination_args.ok THEN destination_args
        ELSE Ok(StartedProcess(
                    "restic",
                    destination_args.val \o <<"copy">> \o source_args.val
                        \o i.snapshots,
                    Overlay(source_env.val, destination_env.val),
                    foreground_ok_codes))

\* the warnings app_copy prints up to the start of restic
copy_command_warnings(cfg, fsys, i) ==
    IF ~validate_two_repo_operation(cfg, i.source, i.destination).ok THEN 0
    ELSE location_arguments_warnings(cfg, i.source)
         + (IF get_location_arguments(cfg, fsys, i.source, TRUE).ok
            THEN location_arguments_warnings(cfg, i.destination) ELSE 0)

\* app_prune up to the start of restic through run_command_politely
prune_prepare(cfg, fsys, environ, i) ==
    LET location == get_location_arguments(cfg, fsys, i.location_name, FALSE)
        env == get_execution_env(cfg, environ, i.location_name)
    IN  IF ~location.ok THEN location
        ELSE IF ~env.ok THEN env
        ELSE Ok(StartedProcess("restic", location.val \o <<"prune">>,
                               env.val, default_ok_codes))

\* app_init_location up to the start of restic: the environment of the new
\* location is read first, then its arguments; with a parent location the
\* pair is validated, the parent's environment is laid over the new
\* location's and the parent's arguments follow as the source side
init_prepare(cfg, fsys, environ, i) ==
    LET location_env == get_execution_env(cfg, environ, i.location_name)
        location == get_location_arguments(cfg, fsys, i.location_name, FALSE)
    IN  IF ~location_env.ok THEN location_env
        ELSE IF ~location.ok THEN location
        ELSE IF ~TruthyStr(i.parent_location_name)
        THEN Ok(StartedProcess("restic",
                               location.val \o i.args \o <<"init">>,
                               location_env.val, foreground_ok_codes))
        ELSE LET parent == i.parent_location_name.val
                 valid == validate_two_repo_operation(cfg, i.location_name,
                                                      parent)
                 parent_env == get_execution_env(cfg, environ, parent)
                 parent_args == get_location_arguments(cfg, fsys, parent, TRUE)
             IN  IF ~valid.ok THEN valid
                 ELSE IF ~parent_env.ok THEN parent_env
                 ELSE IF ~parent_args.ok THEN parent_args
                 ELSE Ok(StartedProcess(
                            "restic",
                            location.val \o i.args \o <<"init">>
                                \o parent_args.val
                                \o <<"--copy-chunker-params">>,
                            Overlay(location_env.val, parent_env.val),
                            foreground_ok_codes))

\* the warnings app_init_location prints up to the start of restic
init_warnings(cfg, fsys, environ, i) ==
    IF ~get_execution_env(cfg, environ, i.location_name).ok THEN 0
    ELSE location_arguments_warnings(cfg, i.location_name)
         + (IF /\ get_location_arguments(cfg, fsys, i.location_name, FALSE).ok
               /\ TruthyStr(i.parent_location_name)
               /\ validate_two_repo_operation(
                    cfg, i.location_name, i.parent_location_name.val).ok
            THEN location_arguments_warnings(cfg, i.parent_location_name.val)
            ELSE 0)

\* app_command, "for key, value in location_env.items()": the key=value
\* pairs of a dict, in the order of the dict
EnvPairs(d) == [j \in DOMAIN d |-> d[j][1] \o "=" \o d[j][2]]

\* the characters of a str
Chars(s) == {SubSeq(s, k, k) : k \in 1..Len(s)}

\* shlex: the characters quote leaves as they are, [\w@%+=:,./-] in ASCII
safe_characters ==
    "abcdefghijklmnopqrstuvwxyzABCDEFGHIJKLMNOPQRSTUVWXYZ0123456789_"
        \o "@%+=:,./-"

\* shlex._find_unsafe(s) is not None
find_unsafe(s) == Chars(s) \ Chars(safe_characters) # {}

\* s.replace("'", "'\"'\"'")
RECURSIVE replace_quote(_)
replace_quote(s) ==
    IF s = "" THEN ""
    ELSE (IF Head(s) = "'" THEN "'\"'\"'" ELSE Head(s))
         \o replace_quote(Tail(s))

\* shlex.quote: '' for the empty str, a str of safe characters as it is, any
\* other in single quotes, in which a single quote is written as '"'"'
shlex_quote(s) ==
    IF s = "" THEN "''"
    ELSE IF ~find_unsafe(s) THEN s
    ELSE "'" \o replace_quote(s) \o "'"

\* shlex.join: the quoted arguments, joined by one space
RECURSIVE shlex_join(_)
shlex_join(items) ==
    IF items = <<>> THEN ""
    ELSE IF Len(items) = 1 THEN shlex_quote(items[1])
    ELSE shlex_quote(items[1]) \o " " \o shlex_join(Tail(items))

\* app_command: what is written to stdout, or how the command fails before
\* it writes; the environment shown is (location.env or location.clean_env)
command_line(cfg, fsys, i) ==
    LET location == get_location(cfg, i.location_name)
    IN  IF ~location.ok THEN location
        ELSE IF IsDict(location.val) THEN AttributeError("dict", "env")
        ELSE LET location_env ==
                    IF ~location.val.env.none
                       /\ location.val.env.val # <<>>
                    THEN location.val.env
                    ELSE location.val.clean_env
                 env_args ==
                    IF ~location_env.none /\ location_env.val # <<>>
                    THEN <<"env">> \o EnvPairs(location_env.val)
                    ELSE <<>>
                 args == get_location_arguments(cfg, fsys, i.location_name,
                                                FALSE)
             IN  IF ~args.ok THEN args
                 ELSE Ok(shlex_join(env_args \o <<"restic">> \o args.val))

\* the exit codes sh accepts when no _ok_code is given
sh_ok_codes == {0}

\* app_decrypt up to the start of the pipeline: openssl, piped into zstd.
\* The first assignment of archive_password_value reads
\* config.archive.password_file whenever config.archive is true; a password
\* option is a pathlib.Path, which is always true. Both processes are started
\* without an _env argument and inherit the environment of the tool
decrypt_prepare(cfg, environ, i) ==
    IF ~i.tools_available
    THEN print_error("Cannot find commands required for archive operation")
    ELSE IF i.output_isatty
    THEN print_error("Stdout is a TTY. Try piping this command instead.")
    ELSE LET has_archive ==
                ~cfg.archive.none /\ TruthyObject(cfg.archive.val)
         IN  IF has_archive /\ IsDict(cfg.archive.val)
             THEN AttributeError("dict", "password_file")
             ELSE LET archive_password_value ==
                        IF ~i.password.none
                        THEN Some(PathStr(Path(i.password.val)))
                        ELSE IF has_archive
                        THEN Some(cfg.archive.val.password_file)
                        ELSE None
                  IN  IF ~TruthyStr(archive_password_value)
                      THEN print_error("a password has not been provided")
                      ELSE LET archive_password_path ==
                                expanduser(Path(archive_password_value.val))
                           IN  IF ~archive_password_path.ok
                               THEN archive_password_path
                               ELSE Ok(<<StartedProcess(
                                            "openssl",
                                            <<"enc", "-aes-256-cbc", "-md",
                                              "sha512", "-pbkdf2", "-iter",
                                              "100000", "-pass",
                                              "file:" \o PathStr(
                                                archive_password_path.val),
                                              "-d">>,
                                            environ, sh_ok_codes),
                                         StartedProcess(
                                            "zstd", <<"-dc", "-T8">>,
                                            environ, sh_ok_codes)>>)

----------------------------------------------------------------------------
(* The values the configuration documents of the model are drawn from *)

Entries == {"a", "b"}
ProfileNames == {"p"}

\* the fields that hold a single value
ScalarFields ==
    {"policy", "hostname", "archive_name", "exclude_caches",
     "exclude_larger_than", "include_files_from",
     "include_files_from_verbatim"}

\* the values a document gives to a field
FieldVals(f) ==
    IF f \in ListFields THEN SeqsUpTo(Entries, MaxList)
    ELSE IF f \in OptListFields
    THEN {None} \cup {Some(l) : l \in SeqsUpTo(Entries, MaxList)}
    ELSE IF f = "policy" THEN {None, Some(""), Some("pol"), Some("aux")}
    ELSE IF f = "hostname" THEN {None, Some(""), Some("h1"), Some("h2")}
    ELSE IF f = "archive_name" THEN {None, Some(""), Some("n1"), Some("n2")}
    ELSE IF f = "exclude_caches" THEN BOOLEAN
    ELSE IF f = "exclude_larger_than" THEN {StrV(""), StrV("1M"), StrV("2G")}
    ELSE {<<>>, <<"r">>, <<"/", "r">>}

\* a document with these profiles and nothing else
Document(profiles, global_profile) ==
    [locations |-> EmptyMap,
     policies |-> EmptyMap,
     profiles |-> profiles,
     global_profile |-> global_profile,
     archive |-> None, cache |-> None, v |-> None]

----------------------------------------------------------------------------
(* SpecMerge: get_profile applied to the configurations, built from the     *)
(* classes of model.py, that set one list field and one scalar field in the *)
(* global profile and in the profile                                        *)

\* the document in which the global profile sets the keys gk and the profile
\* the keys pk, among the list field lf and the scalar field sf
MergeDocument(lf, sf, gk, pk, gl, gs, pl, ps, hasGlobal) ==
    LET pkeys == pk \cup (IF sf = "policy" THEN {} ELSE {"policy"})
        rawG == [f \in gk |-> IF f = lf THEN gl ELSE gs]
        rawP == [f \in pkeys |->
                    IF f = lf THEN pl ELSE IF f = sf THEN ps ELSE Some("pol")]
    IN  Document([n \in ProfileNames |-> rawP],
                 IF hasGlobal THEN Some(rawG) ELSE None)

MergeInit ==
    /\ \E lf \in ListFields \cup OptListFields, sf \in ScalarFields :
       \E hasGlobal \in BOOLEAN :
       \E gk \in IF hasGlobal THEN SUBSET {lf, sf} ELSE {{}} :
       \E pk \in SUBSET {lf, sf} :
       \E gl \in IF lf \in gk THEN FieldVals(lf) ELSE {<<>>} :
       \E pl \in IF lf \in pk THEN FieldVals(lf) ELSE {<<>>} :
       \E gs \in IF sf \in gk THEN FieldVals(sf) ELSE {<<>>} :
       \E ps \in IF sf \in pk THEN FieldVals(sf) ELSE {<<>>} :
            yaml = MergeDocument(lf, sf, gk, pk, gl, gs, pl, ps, hasGlobal)
    /\ config = ModelObjects(yaml)
    /\ fs = {}
    /\ osenv = EmptyMap
    /\ inv = [command |-> "get_profile", name |-> "p"]
    /\ pc = "start"
    /\ procs = <<>>
    /\ warned = 0
    /\ status = "running"
    /\ ret = None
    /\ job = None

\* helper.get_profile(config, name)
CallGetProfile ==
    /\ pc = "start"
    /\ inv.command = "get_profile"
    /\ ret' = get_profile(config, inv.name)
    /\ pc' = "done"
    /\ status' = IF ret'.ok THEN "running" ELSE ExitStatus(ret')
    /\ UNCHANGED <<yaml, config, job, fs, osenv, inv, procs, warned>>
MergeNext == CallGetProfile

SpecMerge == MergeInit /\ [][MergeNext]_vars

\* the global profile, the profile as configured and as written, and the
\* result of a finished resolution
GlobalP == config.global_profile.val
LoadedP == config.profiles[inv.name]
RawP == yaml.profiles[inv.name]
Resolved == ret.val

\* get_profile has ended for a profile that exists and names a policy, in a
\* configuration with a global profile
ResolutionWithGlobal ==
    /\ pc = "done"
    /\ inv.command = "get_profile"
    /\ ~config.global_profile.none
    /\ TruthyStr(LoadedP.policy)

\* a list-valued field as a list
AsList(f, v) == IF f \in OptListFields THEN OrEmpty(v) ELSE v

\* C6: the resolution of a profile with a global profile returns the profile
\* in which every list-valued field is the global profile's list followed by
\* the profile's list.
C6_ListsConcatenate ==
    ResolutionWithGlobal =>
        /\ ret.ok
        /\ \A f \in ListFields \cup OptListFields :
                AsList(f, Resolved[f]) =
                    AsList(f, GlobalP[f]) \o AsList(f, LoadedP[f])

\* the scalar fields claim C7 names
C7Fields ==
    {"policy", "hostname", "archive_name", "exclude_caches",
     "exclude_larger_than"}

\* C7: the resolution of a profile with a global profile returns the profile
\* in which every scalar field takes the profile's value whenever the
\* profile defines the field (also when the value is the field's default),
\* and the global profile's value otherwise.
C7_ScalarPrefersProfile ==
    ResolutionWithGlobal =>
        /\ ret.ok
        /\ \A f \in C7Fields :
                Resolved[f] = IF f \in DOMAIN RawP THEN RawP[f] ELSE GlobalP[f]

----------------------------------------------------------------------------
(* SpecLoc: the functions of one or two locations, applied to the           *)
(* configurations, built from the classes of model.py, that vary the        *)
(* locations' passwords, the shared cache and the locations' environment    *)
(* maps                                                                     *)

LocNames == {"l1", "l2"}
MissingLoc == "nx"
EnvKeys == {<<>>, <<"K1">>, <<"K2">>, <<"K1", "K2">>}

\* the environment maps that give the value v to some of the keys
EnvMaps(v) == {[j \in DOMAIN keys |-> <<keys[j], v>>] : keys \in EnvKeys}
OptEnvMaps(v) == {None} \cup {Some(m) : m \in EnvMaps(v)}

\* the values of os.environ
OsEnvs == {EmptyMap, [K1 |-> "os", PATH |-> "/bin"]}

\* a document with these locations and this shared cache
LocDocument(locations, cache) ==
    [locations |-> locations,
     policies |-> EmptyMap,
     profiles |-> EmptyMap,
     global_profile |-> None,
     archive |-> None, cache |-> cache, v |-> None]

\* the documents that vary the passwords of l1 and the shared cache
PasswordDocuments ==
    {LocDocument(
        [n \in LocNames |->
            IF n = "l1"
            THEN [BackupLocation("/repo/l1") EXCEPT
                    !.password_file = pf, !.password_command = pcmd]
            ELSE BackupLocation("/repo/l2")],
        cache) :
        pf \in {None, Some(""), Some("/pw"), Some("~/pw"), Some("~x/pw")},
        pcmd \in {None, Some(""), Some("cmd")},
        cache \in {None, Some(""), Some("/cache")}}

\* the documents that vary the env and clean_env maps of l1 and l2
EnvDocuments ==
    {LocDocument(
        [n \in LocNames |->
            IF n = "l1"
            THEN [BackupLocation("/repo/l1") EXCEPT
                    !.env = e1, !.clean_env = c1]
            ELSE [BackupLocation("/repo/l2") EXCEPT
                    !.env = e2, !.clean_env = c2]],
        None) :
        e1 \in OptEnvMaps("e1"), c1 \in OptEnvMaps("c1"),
        e2 \in OptEnvMaps("e2"), c2 \in OptEnvMaps("c2")}

LocInit ==
    /\ \/ /\ yaml \in PasswordDocuments
          /\ fs \in SUBSET {"/pw", "/home/pw"}
          /\ osenv = EmptyMap
          /\ \E n \in LocNames \cup {MissingLoc}, from_repo \in BOOLEAN :
                inv = [command |-> "get_location_arguments",
                       location_name |-> n, from_repo |-> from_repo]
       \/ /\ yaml \in EnvDocuments
          /\ fs = {}
          /\ osenv \in OsEnvs
          /\ \/ \E n \in LocNames \cup {MissingLoc} :
                    inv = [command |-> "get_execution_env",
                           location_name |-> n]
             \/ \E a \in LocNames \cup {MissingLoc},
                   b \in LocNames \cup {MissingLoc} :
                    inv = [command |-> "validate_two_repo_operation",
                           location_a_name |-> a, location_b_name |-> b]
    /\ config = ModelObjects(yaml)
    /\ pc = "start"
    /\ procs = <<>>
    /\ warned = 0
    /\ status = "running"
    /\ ret = None
    /\ job = None

\* helper.get_location_arguments(config, location_name, from_repo)
CallGetLocationArguments ==
    /\ pc = "start"
    /\ inv.command = "get_location_arguments"
    /\ ret' = get_location_arguments(config, fs, inv.location_name,
                                     inv.from_repo)
    /\ warned' = warned + location_arguments_warnings(config, inv.location_name)
    /\ pc' = "done"
    /\ status' = IF ret'.ok THEN "running" ELSE ExitStatus(ret')
    /\ UNCHANGED <<yaml, config, job, fs, osenv, inv, procs>>

\* helper.get_execution_env(config, location_name)
CallGetExecutionEnv ==
    /\ pc = "start"
    /\ inv.command = "get_execution_env"
    /\ ret' = get_execution_env(config, osenv, inv.location_name)
    /\ pc' = "done"
    /\ status' = IF ret'.ok THEN "running" ELSE ExitStatus(ret')
    /\ UNCHANGED <<yaml, config, job, fs, osenv, inv, procs, warned>>

\* helper.validate_two_repo_operation(config, location_a_name, location_b_name)
CallValidateTwoRepo ==
    /\ pc = "start"
    /\ inv.command = "validate_two_repo_operation"
    /\ ret' = validate_two_repo_operation(config, inv.location_a_name,
                                          inv.location_b_name)
    /\ pc' = "done"
    /\ status' = IF ret'.ok THEN "running" ELSE ExitStatus(ret')
    /\ UNCHANGED <<yaml, config, job, fs, osenv, inv, procs, warned>>

LocNext ==
    \/ CallGetLocationArguments
    \/ CallGetExecutionEnv
    \/ CallValidateTwoRepo

SpecLoc == LocInit /\ [][LocNext]_vars

\* a finished application of the function of that name
Returned(fn) == pc = "done" /\ inv.command = fn

\* a location's effective environment map: clean_env if present, else env
EffectiveEnv(location) ==
    IF ~location.clean_env.none THEN Mapping(location.clean_env.val)
    ELSE Mapping(OrEmptyDict(location.env))

\* C4: validate_two_repo_operation fails for a location paired with itself,
\* fails for two locations whose effective environment maps (clean_env if
\* present, else env) share a key, and returns normally for every other pair.
C4_ValidateEffectiveEnv ==
    (/\ Returned("validate_two_repo_operation")
     /\ inv.location_a_name \in DOMAIN config.locations
     /\ inv.location_b_name \in DOMAIN config.locations) =>
        (ret.ok <=>
            /\ inv.location_a_name # inv.location_b_name
            /\ (DOMAIN EffectiveEnv(config.locations[inv.location_a_name]))
                 \cap
               (DOMAIN EffectiveEnv(config.locations[inv.location_b_name]))
                 = {})

\* C5: get_execution_env returns exactly the location's clean_env map when
\* the location defines one, and otherwise the process environment overlaid
\* with the location's env map, the location's value winning.
C5_ExecutionEnv ==
    (Returned("get_execution_env") /\ ret.ok) =>
        LET location == config.locations[inv.location_name]
        IN  IF ~location.clean_env.none
            THEN ret.val = Mapping(location.clean_env.val)
            ELSE /\ DOMAIN ret.val =
                        (DOMAIN osenv) \cup Keys(OrEmptyDict(location.env))
                 /\ \A k \in DOMAIN ret.val :
                        ret.val[k] =
                            IF k \in Keys(OrEmptyDict(location.env))
                            THEN Mapping(location.env.val)[k]
                            ELSE osenv[k]

\* the call of get_location_arguments returned its tokens
LocationArgumentsOk == Returned("get_location_arguments") /\ ret.ok

\* C9: the tokens of get_location_arguments begin with the cache part, which
\* is --cache-dir <cache> when a shared cache is configured and the call is
\* not source-side, and --no-cache in every other case, source-side calls
\* included.
C9_CachePartOriginal ==
    LocationArgumentsOk =>
        IF TruthyStr(config.cache) /\ ~inv.from_repo
        THEN SubSeq(ret.val, 1, 2) = <<"--cache-dir", config.cache.val>>
        ELSE ret.val[1] = "--no-cache"

CacheFlags == {"--cache-dir", "--no-cache"}
RepoFlags == {"--repo", "--from-repo"}
PasswordFlags ==
    {"--password-file", "--password-command",
     "--from-password-file", "--from-password-command"}

\* the positions of tokens that hold one of these flags
FlagPositions(tokens, flags) == {i \in 1..Len(tokens) : tokens[i] \in flags}

\* C9 (amended): the tokens of get_location_arguments are the cache part, the
\* password part and the repo flag pair, in that order; the cache part is
\* --cache-dir <cache> when a shared cache is configured and the call is not
\* source-side, --no-cache when no shared cache is configured and the call is
\* not source-side, and empty for every source-side call.
C9_CachePart ==
    LocationArgumentsOk =>
        LET out == ret.val
            n == Len(out)
            location == config.locations[inv.location_name]
            cacheLen == IF inv.from_repo THEN 0
                        ELSE IF TruthyStr(config.cache) THEN 2 ELSE 1
        IN  /\ n >= cacheLen + 2
            /\ IF inv.from_repo
               THEN FlagPositions(out, CacheFlags) = {}
               ELSE IF TruthyStr(config.cache)
               THEN /\ SubSeq(out, 1, 2) = <<"--cache-dir", config.cache.val>>
                    /\ FlagPositions(out, CacheFlags) = {1}
               ELSE /\ out[1] = "--no-cache"
                    /\ FlagPositions(out, CacheFlags) = {1}
            /\ FlagPositions(out, RepoFlags) = {n - 1}
            /\ out[n] = location.path
            /\ \A i \in FlagPositions(out, PasswordFlags) :
                    cacheLen < i /\ i < n - 1

\* a source-side call that returned tokens, none of them a cache flag
C9_Witness ==
    /\ LocationArgumentsOk
    /\ inv.from_repo
    /\ FlagPositions(ret.val, CacheFlags) = {}
    /\ FlagPositions(ret.val, PasswordFlags) # {}

\* C10: the tokens of get_location_arguments hold at most one password flag:
\* the password-file flag when the location defines a password file, the
\* password-command flag when it defines only a password command, and none,
\* with a warning and no failure, when it defines neither.
C10_OnePasswordFlag ==
    Returned("get_location_arguments") =>
        LET location == config.locations[inv.location_name]
            key == IF inv.from_repo THEN "from" ELSE "to"
            at == FlagPositions(ret.val, PasswordFlags)
        IN  inv.location_name \in DOMAIN config.locations =>
            IF TruthyStr(location.password_file)
            THEN ret.ok =>
                    /\ Cardinality(at) = 1
                    /\ \A i \in at :
                        /\ ret.val[i] = location_option_names.password_file[key]
                        /\ ret.val[i + 1] =
                            PathStr(absolute(expanduser(
                                Path(location.password_file.val)).val))
                    /\ warned = 0
            ELSE IF TruthyStr(location.password_command)
            THEN /\ ret.ok
                 /\ Cardinality(at) = 1
                 /\ \A i \in at :
                        /\ ret.val[i] =
                            location_option_names.password_command[key]
                        /\ ret.val[i + 1] = location.password_command.val
                 /\ warned = 0
            ELSE /\ ret.ok
                 /\ at = {}
                 /\ warned = 1

\* a call for a location that defines both a password file and a password
\* command, which returned the password-file flag alone
C10_Witness ==
    /\ LocationArgumentsOk
    /\ TruthyStr(config.locations[inv.location_name].password_file)
    /\ TruthyStr(config.locations[inv.location_name].password_command)
    /\ Cardinality(FlagPositions(ret.val, PasswordFlags)) = 1

----------------------------------------------------------------------------
(* SpecIncl: get_inclusion_arguments applied to the profiles that combine    *)
(* plain includes with every kind of flagged entry                           *)
----------------------------------------------------------------------------
(* SpecIncl: get_inclusion_arguments applied to the configurations, built   *)
(* from the classes of model.py, whose profiles combine                     *)
(* plain includes with every kind of flagged entry                           *)

\* the flagged fields other than exclude, each with the value a document of
\* this specification gives it
OtherFlagged ==
    [include_files_from |-> <<"/", "r">>,
     include_files_from_verbatim |-> <<"r">>,
     iexclude |-> <<"a">>,
     exclude_if_present |-> <<"b">>,
     exclude_file |-> <<"a">>,
     iexclude_file |-> <<"b">>,
     exclude_caches |-> TRUE,
     exclude_larger_than |-> StrV("1M")]

\* the global profiles of this specification
InclGlobals ==
    {None,
     Some([include |-> <<"b">>]),
     Some([include |-> <<"b">>, include_files_from |-> <<"r">>,
           exclude |-> <<"b">>, exclude_file |-> <<"b">>,
           exclude_caches |-> TRUE, exclude_larger_than |-> StrV("2G")])}

\* the profile that sets these includes, these excludes and the other
\* flagged fields in S
InclProfile(include, exclude, S) ==
    [f \in {"policy", "include", "exclude"} \cup S |->
        IF f = "policy" THEN Some("pol")
        ELSE IF f = "include" THEN include
        ELSE IF f = "exclude" THEN exclude
        ELSE OtherFlagged[f]]

InclPaths == {"/", "/cwd/r", "/cwd/a", "/cwd/b"}

InclInit ==
    /\ \E include \in SeqsUpTo(Entries, MaxList),
          exclude \in {<<>>, <<"a">>, <<"a", "b">>},
          S \in SUBSET DOMAIN OtherFlagged,
          g \in InclGlobals :
            yaml = Document([n \in ProfileNames |->
                                InclProfile(include, exclude, S)], g)
    /\ config = ModelObjects(yaml)
    /\ fs \in {InclPaths, InclPaths \ {"/cwd/a"}, InclPaths \ {"/cwd/r"}}
    /\ osenv = EmptyMap
    /\ inv = [command |-> "get_inclusion_arguments", profile_name |-> "p",
              group_names |-> <<>>]
    /\ pc = "start"
    /\ procs = <<>>
    /\ warned = 0
    /\ status = "running"
    /\ ret = None
    /\ job = None

\* list(helper.get_inclusion_arguments(config, profile_name, group_names))
CallGetInclusionArguments ==
    /\ pc = "start"
    /\ inv.command = "get_inclusion_arguments"
    /\ ret' = get_inclusion_arguments(config, fs, inv.profile_name,
                                      inv.group_names)
    /\ pc' = "done"
    /\ status' = IF ret'.ok THEN "running" ELSE ExitStatus(ret')
    /\ UNCHANGED <<yaml, config, job, fs, osenv, inv, procs, warned>>

InclNext == CallGetInclusionArguments

SpecIncl == InclInit /\ [][InclNext]_vars

\* the flags of get_inclusion_arguments that take a value, and the one that
\* does not
PairFlags ==
    {"--files-from", "--files-from-verbatim", "--exclude", "--iexclude",
     "--exclude-if-present", "--exclude-file", "--iexclude-file",
     "--exclude-larger-than"}
BareFlags == {"--exclude-caches"}

\* the include entries the global profile and the profile contribute
AllIncludes ==
    (IF config.global_profile.none THEN <<>> ELSE GlobalP.include)
        \o config.profiles[inv.profile_name].include

\* the position of the first bare include token: the includes are the last
\* tokens yielded
FirstInclude == Len(ret.val) - Len(AllIncludes) + 1

\* the flagged entries of a list field that the global profile and the
\* profile contribute
Contributed(f) ==
    (IF config.global_profile.none THEN 0 ELSE Len(GlobalP[f]))
        + Len(config.profiles[inv.profile_name][f])

\* C1: get_inclusion_arguments produces the tokens of the profile, in which
\* every flagged token and its value, whichever source definition
\* contributed it, comes strictly before the first bare include token.
C1_FlagsBeforeIncludes ==
    Returned("get_inclusion_arguments") =>
        /\ ret.ok
        /\ LET out == ret.val
               pairAt == FlagPositions(out, PairFlags)
               bareAt == FlagPositions(out, BareFlags)
           IN  /\ SubSeq(out, FirstInclude, Len(out)) = AllIncludes
               /\ \A i \in pairAt : i + 1 < FirstInclude
               /\ \A i \in bareAt : i < FirstInclude
               /\ FirstInclude - 1
                    = 2 * Cardinality(pairAt) + Cardinality(bareAt)
               /\ Cardinality(FlagPositions(out, {"--exclude"}))
                    = Contributed("exclude")
               /\ Cardinality(FlagPositions(out, {"--exclude-file"}))
                    = Contributed("exclude_file")

----------------------------------------------------------------------------
(* SpecRet: get_retention_arguments applied to the policies that set any     *)
(* of the retention fields                                                   *)

\* the values of an Optional[int] retention field
RetentionInts == {None, Some("0"), Some("4"), Some("7")}

\* the retention objects of this specification
Retentions ==
    {[keep_last |-> l, keep_within |-> w, keep_hourly |-> None,
      keep_daily |-> d, keep_weekly |-> k, keep_monthly |-> m,
      keep_yearly |-> y] :
        l \in {None, Some("0"), Some("7")}, w \in {None, Some("2d")},
        d \in RetentionInts, k \in RetentionInts,
        m \in {None, Some("7")}, y \in {None, Some("0")}}
    \cup
    {[BackupRetention EXCEPT !.keep_hourly = h] : h \in RetentionInts}

\* a document with one policy that has this retention
RetentionDocument(retention) ==
    [locations |-> [n \in {"l1"} |-> BackupLocation("/repo/l1")],
     policies |-> [n \in {"pol"} |->
                    [BackupPolicy(LocStr("l1")) EXCEPT !.retention = retention]],
     profiles |-> EmptyMap,
     global_profile |-> None, archive |-> None, cache |-> None, v |-> None]

RetInit ==
    /\ yaml \in {RetentionDocument(r) :
                    r \in {None} \cup {Some(x) : x \in Retentions}}
    /\ config = ModelObjects(yaml)
    /\ fs = {}
    /\ osenv = EmptyMap
    /\ inv = [command |-> "get_retention_arguments", policy |-> "pol"]
    /\ pc = "start"
    /\ procs = <<>>
    /\ warned = 0
    /\ status = "running"
    /\ ret = None
    /\ job = None

\* helper.get_retention_arguments(config, policy)
CallGetRetentionArguments ==
    /\ pc = "start"
    /\ inv.command = "get_retention_arguments"
    /\ ret' = Ok(get_retention_arguments(config, config.policies[inv.policy]))
    /\ warned' = warned
                    + retention_arguments_warnings(config.policies[inv.policy])
    /\ pc' = "done"
    /\ UNCHANGED <<yaml, config, job, fs, osenv, inv, procs, status>>

RetNext == CallGetRetentionArguments

SpecRet == RetInit /\ [][RetNext]_vars

\* the flag pair of a retention field that is set, its value as a string
SetPair(flag, o) == IF o.none THEN <<>> ELSE <<StrV(flag), StrV(o.val)>>

\* C12: get_retention_arguments returns, in the order last, within, hourly,
\* daily, weekly, monthly, yearly, one flag pair for exactly the retention
\* fields that are set (0 counts as set), each value a string token; without
\* a retention object it returns the empty list and warns.
C12_RetentionTokens ==
    Returned("get_retention_arguments") =>
        LET policy == config.policies[inv.policy]
        IN  IF policy.retention.none
            THEN ret.val = <<>> /\ warned = 1
            ELSE LET retention == policy.retention.val
                 IN  /\ warned = 0
                     /\ ret.val =
                            SetPair("--keep-last", retention.keep_last)
                         \o SetPair("--keep-within", retention.keep_within)
                         \o SetPair("--keep-hourly", retention.keep_hourly)
                         \o SetPair("--keep-daily", retention.keep_daily)
                         \o SetPair("--keep-weekly", retention.keep_weekly)
                         \o SetPair("--keep-monthly", retention.keep_monthly)
                         \o SetPair("--keep-yearly", retention.keep_yearly)

----------------------------------------------------------------------------
(* SpecRun: the commands of cli.py as processes that start external          *)
(* processes and wait for them, on the configuration app_main loads from    *)
(* the configuration file and on a configuration built from the classes of  *)
(* model.py                                                                  *)

\* the largest number of locations a policy names
MaxLocations == 3

LocName(k) == "l" \o ToString(k)
RunLocNames == {LocName(k) : k \in 1..MaxLocations}

\* the k-th location of the documents of this specification: a password
\* command that shlex.quote has to quote, a password file, or neither; the
\* locations after the first have a clean_env map beside their env map, and
\* the env map of the second has two keys
RunLocation(k) ==
    IF k = 1
    THEN [BackupLocation("/repo/l1") EXCEPT
            !.password_command = Some("echo 'pw'"),
            !.env = Some(<<<<"K1", "e1">>>>)]
    ELSE IF k = 2
    THEN [BackupLocation("/repo/l2") EXCEPT
            !.password_file = Some("/pw"),
            !.env = Some(<<<<"K4", "e4">>, <<"K2", "e2">>>>),
            !.clean_env = Some(<<<<"K3", "c2">>>>)]
    ELSE [BackupLocation("/repo/" \o LocName(k)) EXCEPT
            !.env = Some(<<<<"K1", "e" \o ToString(k)>>>>),
            !.clean_env = Some(<<<<"K3", "c" \o ToString(k)>>>>)]

\* the first k location names
FirstLocations(k) == [j \in 1..k |-> LocName(j)]

\* the values of a policy's location
PolicyLocations ==
    {LocNone, LocStr(""), LocList(<<>>), LocStr(LocName(1))}
        \cup {LocList(FirstLocations(k)) : k \in 1..MaxLocations}

\* the profile of the documents of this specification, with this policy
RunProfile(policy) ==
    [policy |-> policy, include |-> <<"a">>, exclude |-> <<"b">>,
     tags |-> Some(<<"t1", "t2">>), args |-> Some(<<"--verbose">>)]

\* the versions a document declares: none, or one below the current one
RunVersions == {None, Some(CURRENT_CONFIG_VERSION - 1)}

\* the documents that vary in their locations, policy and profiles
PolicyDocuments ==
    {[locations |-> [n \in present |->
                        RunLocation(CHOOSE k \in 1..MaxLocations : LocName(k) = n)],
      policies |-> [n \in {"pol"} |-> BackupPolicy(location)],
      profiles |-> profiles,
      global_profile |-> g,
      archive |-> None, cache |-> Some("/cache"), v |-> v] :
        present \in {RunLocNames, RunLocNames \ {LocName(MaxLocations)},
                     RunLocNames \ {LocName(1)}},
        location \in PolicyLocations,
        profiles \in {EmptyMap} \cup
            {[n \in ProfileNames |-> RunProfile(policy)] :
                policy \in {None, Some(""), Some("pol"), Some("nopol")}},
        g \in {None, Some([policy |-> Some("pol"), exclude_caches |-> TRUE])},
        v \in RunVersions}

\* a document with an archive configuration and nothing else
ArchiveDocument ==
    [locations |-> EmptyMap, policies |-> EmptyMap, profiles |-> EmptyMap,
     global_profile |-> None,
     archive |-> Some([cache |-> "/acache", password_file |-> "/apw"]),
     cache |-> None, v |-> None]

RunDocuments == PolicyDocuments \cup {ArchiveDocument}

\* a document without its policies, and one with a key that is no field
MalformedDocuments ==
    {[locations |-> EmptyMap, profiles |-> EmptyMap],
     [locations |-> EmptyMap, policies |-> EmptyMap, profiles |-> EmptyMap,
      groups |-> EmptyMap]}

\* the configuration file: missing, or holding one of the documents
RunFiles ==
    {None} \cup {Some(d) : d \in RunDocuments \cup MalformedDocuments}

\* the command lines of this specification
RunInvocations ==
    {[command |-> "run", name |-> "p", groups |-> <<>>, no_copy |-> no_copy,
      locations_override |-> override, dry_run |-> dry_run] :
        no_copy \in BOOLEAN, override \in {None, Some(<<LocName(2)>>)},
        dry_run \in BOOLEAN}
    \cup
    {[command |-> "snapshots", name |-> "p", json |-> FALSE,
      location_override |-> override] :
        override \in {None, Some(LocName(2))}}
    \cup
    {[command |-> "apply", name |-> "p", prune |-> FALSE, dry_run |-> FALSE,
      locations_override |-> override] :
        override \in {None, Some(<<LocName(2), LocName(1)>>)}}
    \cup
    {[command |-> "mount", name |-> "p", mount_point |-> m,
      location_name |-> None] : m \in {"/mnt", "/nomnt"}}
    \cup
    {[command |-> "copy", source |-> src, destination |-> dst,
      snapshots |-> <<"abc123">>] :
        src \in {LocName(1), LocName(2)}, dst \in RunLocNames}
    \cup
    {[command |-> "execute", location_name |-> n, args |-> <<"check">>] :
        n \in {LocName(1), LocName(MaxLocations)}}
    \cup
    {[command |-> "archive", name |-> "p", destination |-> "/dest",
      snapshots |-> <<"abc123">>, location_override |-> None,
      encrypt |-> FALSE,
      password |-> None, tools_available |-> t] : t \in BOOLEAN}
    \cup
    {[command |-> "prune", location_name |-> n] :
        n \in {LocName(1), LocName(MaxLocations)}}
    \cup
    {[command |-> "init", location_name |-> n, parent_location_name |-> parent,
      args |-> <<>>] :
        n \in {LocName(1), LocName(MaxLocations)},
        parent \in {None, Some(LocName(1)), Some(LocName(2))}}
    \cup
    {[command |-> "command", location_name |-> n] :
        n \in {LocName(1), LocName(2)}}
    \cup
    {[command |-> "decrypt", password |-> password, tools_available |-> t,
      output_isatty |-> tty] :
        password \in {None, Some("/pw"), Some("~x/pw")},
        t \in BOOLEAN, tty \in BOOLEAN}
    \cup
    {[command |-> "list"]}

\* the calls of the command functions of __init__.py, the command line
\* interface the package itself defines
CliInvocations ==
    {[command |-> "cli_run", name |-> "p", groups |-> <<>>,
      no_copy |-> no_copy, locations_override |-> None] :
        no_copy \in BOOLEAN}
    \cup
    {[command |-> "cli_snapshots", name |-> "p", json |-> FALSE,
      location_override |-> override] :
        override \in {None, Some(LocName(2))}}
    \cup
    {[command |-> "cli_forget", name |-> "p", dry_run |-> dry_run,
      prune |-> FALSE, locations_override |-> None] :
        dry_run \in BOOLEAN}
    \cup
    {[command |-> "cli_mount", name |-> "p", mount_point |-> m,
      location_name |-> None] : m \in {"/mnt", "/nomnt"}}
    \cup
    {[command |-> "cli_copy", source |-> src, destination |-> dst,
      snapshots |-> <<"abc123">>] :
        src \in {LocName(1), LocName(2)}, dst \in RunLocNames}
    \cup
    {[command |-> "cli_execute", location_name |-> n, args |-> <<"check">>] :
        n \in {LocName(1), LocName(MaxLocations)}}
    \cup
    {[command |-> "cli_archive", name |-> "p", destination |-> "/dest",
      snapshots |-> <<"abc123">>, location_override |-> None,
      encrypt |-> FALSE,
      password |-> None, tools_available |-> t] : t \in BOOLEAN}
    \cup
    {[command |-> "cli_prune", location_name |-> n] :
        n \in {LocName(1), LocName(MaxLocations)}}
    \cup
    {[command |-> "cli_command", location_name |-> n] :
        n \in {LocName(1), LocName(2)}}
    \cup
    {[command |-> "cli_decrypt", password |-> password, tools_available |-> t,
      output_isatty |-> tty] :
        password \in {None, Some("/pw")}, t \in BOOLEAN, tty \in BOOLEAN}
    \cup
    {[command |-> "cli_list"]}

\* the exit codes of the external processes
ExitCodes == {0, 1, 3, 12}

\* the sets of paths that exist beside the configuration file
RunPaths == {{"/", "/mnt", "/dest", "/pw"}, {"/", "/mnt", "/dest"}}

\* app_main: the callback loads the configuration file into the context
\* object and warns of a dry run; the command function follows
AppMain(file, i, paths) ==
    LET instance == load_config_values(file)
    IN  /\ yaml = config_file_contents(file)
        /\ fs = paths \cup {ConfigPath}
        /\ inv = i
        /\ IF instance.ok
           THEN /\ config = instance.val
                /\ warned = load_config_values_warnings(file)
                            + (IF "dry_run" \in DOMAIN i /\ i.dry_run
                               THEN 1 ELSE 0)
                /\ pc = "start"
                /\ status = "running"
           ELSE /\ config = None
                /\ warned = 0
                /\ pc = "exited"
                /\ status = ExitStatus(instance)

\* a command function called with a context object whose configuration is
\* built from the classes of model.py
CalledWithObjects(doc, i, paths) ==
    /\ yaml = doc
    /\ fs = paths
    /\ inv = i
    /\ config = ModelObjects(doc)
    /\ warned = 0
    /\ pc = "start"
    /\ status = "running"

\* cli_main: the callback of the command line interface of __init__.py reads
\* applicationConfig.loadConfigValues, a name config.py does not define:
\* AttributeError leaves the callback before the configuration file is read,
\* and no command function follows
CliMain(file, i, paths) ==
    /\ yaml = file.val
    /\ fs = paths \cup {ConfigPath}
    /\ inv = i
    /\ config = None
    /\ warned = 0
    /\ pc = "exited"
    /\ status = ExitStatus(Raise(
                    "AttributeError: module 'spgill.backup.config' has no "
                        \o "attribute 'loadConfigValues'"))

\* the commands that read no profile and no policy
LocationCommands ==
    {"copy", "execute", "prune", "init", "command", "decrypt", "list",
     "cli_copy", "cli_execute", "cli_prune", "cli_command", "cli_decrypt",
     "cli_list"}

\* the documents a command is run on: every document for a command that
\* works on a profile; for a command that reads no profile, the documents
\* that differ in their locations, version and archive configuration
DocumentsFor(i) ==
    IF i.command \notin LocationCommands THEN RunDocuments
    ELSE {d \in RunDocuments :
            \/ d = ArchiveDocument
            \/ /\ d.policies["pol"].location
                    = LocList(FirstLocations(MaxLocations))
               /\ d.profiles = [n \in ProfileNames |-> RunProfile(Some("pol"))]
               /\ d.global_profile = None}

\* the configuration files a command is run on
FilesFor(i) ==
    {f \in RunFiles :
        f.none \/ f.val \in MalformedDocuments \/ f.val \in DocumentsFor(i)}

RunInit ==
    /\ \/ \E i \in RunInvocations, paths \in RunPaths :
            \/ \E file \in FilesFor(i) : AppMain(file, i, paths)
            \/ \E doc \in DocumentsFor(i) : CalledWithObjects(doc, i, paths)
       \/ \E i \in CliInvocations, paths \in RunPaths :
            \/ \E file \in FilesFor(i) \ {None} : CliMain(file, i, paths)
            \/ \E doc \in DocumentsFor(i) : CalledWithObjects(doc, i, paths)
    /\ osenv = [PATH |-> "/bin"]
    /\ procs = <<>>
    /\ ret = None
    /\ job = None

\* the command starts the process r.val and waits at next, or ends with the
\* failure r
StartOrExit(r, next) ==
    IF r.ok
    THEN /\ procs' = Append(procs, r.val)
         /\ pc' = next
         /\ status' = "running"
    ELSE /\ procs' = procs
         /\ pc' = "exited"
         /\ status' = ExitStatus(r)

\* the command ends
End(how) ==
    /\ pc' = IF how = "exit0" THEN "finished" ELSE "exited"
    /\ status' = how
    /\ procs' = procs

Last(seq) == seq[Len(seq)]

\* app_run from its first line to the start of the backup
RunStart ==
    /\ pc = "start"
    /\ inv.command = "run"
    /\ StartOrExit(run_prepare(config, fs, osenv, inv), "wait_backup")
    /\ warned' = warned + run_prepare_warnings(config, inv)
    /\ UNCHANGED <<yaml, config, job, fs, osenv, inv, ret>>

\* an external process exits with some exit code
ProcExit ==
    /\ status = "running"
    /\ \E k \in 1..Len(procs), code \in ExitCodes :
        /\ procs[k].state = "running"
        /\ procs' = [procs EXCEPT ![k].state = "exited", ![k].code = code]
    /\ UNCHANGED <<yaml, config, job, fs, osenv, inv, pc, warned, status, ret>>

\* app_snapshots from its first line to the start of restic
SnapshotsStart ==
    /\ pc = "start"
    /\ inv.command = "snapshots"
    /\ StartOrExit(snapshots_prepare(config, fs, osenv, inv), "wait_fg")
    /\ LET r == resolve_profile_policy(config, inv.name)
       IN  warned' = warned +
            (IF r.ok
             THEN location_arguments_warnings(
                    config, OrStr(inv.location_override, r.val.locations[1]))
             ELSE 0)
    /\ UNCHANGED <<yaml, config, job, fs, osenv, inv, ret>>

\* app_mount from its first line to the start of restic
MountStart ==
    /\ pc = "start"
    /\ inv.command = "mount"
    /\ StartOrExit(mount_prepare(config, fs, osenv, inv), "wait_fg")
    /\ LET r == resolve_profile_policy(config, inv.name)
       IN  warned' = warned +
            (IF r.ok /\ inv.mount_point \in fs
             THEN location_arguments_warnings(
                    config, OrStr(inv.location_name, r.val.locations[1]))
             ELSE 0)
    /\ UNCHANGED <<yaml, config, job, fs, osenv, inv, ret>>

\* a command that ran restic in the foreground, from the return of restic to
\* its end
FgDone ==
    /\ pc = "wait_fg"
    /\ wait_returns(Last(procs))
    /\ End(IF raises_error_return_code(Last(procs)) THEN "raised" ELSE "exit0")
    /\ UNCHANGED <<yaml, config, job, fs, osenv, inv, warned, ret>>

\* app_apply from its first line to the start of the first restic forget
ApplyStart ==
    /\ pc = "start"
    /\ inv.command = "apply"
    /\ StartOrExit(apply_start(config, fs, osenv, inv), "wait_apply")
    /\ warned' = warned + apply_warnings(config, fs, inv)
    /\ UNCHANGED <<yaml, config, job, fs, osenv, inv, ret>>

\* app_archive from its first line to the start of the first snapshot query
ArchiveStart ==
    /\ pc = "start"
    /\ inv.command = "archive"
    /\ StartOrExit(archive_prepare(config, fs, osenv, inv), "archive_query")
    /\ LET r == resolve_profile_policy(config, inv.name)
       IN  warned' = warned +
            (IF r.ok /\ inv.tools_available
             THEN location_arguments_warnings(
                    config, OrStr(inv.location_override, r.val.locations[1]))
             ELSE 0)
    /\ UNCHANGED <<yaml, config, job, fs, osenv, inv, ret>>

\* app_copy from its first line to the start of restic
CopyStart ==
    /\ pc = "start"
    /\ inv.command = "copy"
    /\ StartOrExit(copy_command_prepare(config, fs, osenv, inv), "wait_fg")
    /\ warned' = warned + copy_command_warnings(config, fs, inv)
    /\ UNCHANGED <<yaml, config, job, fs, osenv, inv, ret>>

\* app_execute from its first line to the start of restic
ExecuteStart ==
    /\ pc = "start"
    /\ inv.command = "execute"
    /\ StartOrExit(execute_prepare(config, fs, osenv, inv), "wait_execute")
    /\ warned' = warned + location_arguments_warnings(config, inv.location_name)
    /\ UNCHANGED <<yaml, config, job, fs, osenv, inv, ret>>

\* app_execute from the return of restic to its end
ExecuteDone ==
    /\ pc = "wait_execute"
    /\ wait_returns(Last(procs))
    /\ End(execute_exit(Last(procs)))
    /\ UNCHANGED <<yaml, config, job, fs, osenv, inv, warned, ret>>

\* app_prune from its first line to the start of restic
PruneStart ==
    /\ pc = "start"
    /\ inv.command = "prune"
    /\ StartOrExit(prune_prepare(config, fs, osenv, inv), "wait")
    /\ warned' = warned + location_arguments_warnings(config, inv.location_name)
    /\ UNCHANGED <<yaml, config, job, fs, osenv, inv, ret>>

\* app_prune and cli_prune from the return of running_proc.wait() to their
\* end: the command returns, or ErrorReturnCode leaves it
PruneDone ==
    /\ pc = "wait"
    /\ inv.command \in {"prune", "cli_prune"}
    /\ wait_returns(Last(procs))
    /\ End(IF raises_error_return_code(Last(procs)) THEN "raised" ELSE "exit0")
    /\ UNCHANGED <<yaml, config, job, fs, osenv, inv, warned, ret>>

\* run_command_politely, "except KeyboardInterrupt": the child is killed if
\* it is alive, and the process exits
Interrupt ==
    /\ pc = "wait"
    /\ procs' = [procs EXCEPT ![Len(procs)] = kill_if_alive(@)]
    /\ pc' = "exited"
    /\ status' = "exit0"
    /\ UNCHANGED <<yaml, config, job, fs, osenv, inv, warned, ret>>

\* KeyboardInterrupt while a command waits for restic in the foreground or
\* for the decrypt pipeline: no handler surrounds the call, the exception
\* leaves the command and the child is left as it is
ForegroundInterrupt ==
    /\ pc \in {"wait_fg", "wait_execute", "wait_decrypt"}
    /\ End("raised")
    /\ UNCHANGED <<yaml, config, job, fs, osenv, inv, warned, ret>>

\* app_init_location from its first line to the start of restic
InitStart ==
    /\ pc = "start"
    /\ inv.command = "init"
    /\ StartOrExit(init_prepare(config, fs, osenv, inv), "wait_fg")
    /\ warned' = warned + init_warnings(config, fs, osenv, inv)
    /\ UNCHANGED <<yaml, config, job, fs, osenv, inv, ret>>

\* app_command: the command line is written to stdout, or the command fails
\* before it writes
CommandDone ==
    /\ pc = "start"
    /\ inv.command = "command"
    /\ LET r == command_line(config, fs, inv)
       IN  /\ ret' = IF r.ok THEN r ELSE ret
           /\ End(IF r.ok THEN "exit0" ELSE ExitStatus(r))
    /\ warned' = warned + location_arguments_warnings(config, inv.location_name)
    /\ UNCHANGED <<yaml, config, job, fs, osenv, inv>>

\* app_decrypt from its first line to the start of openssl and zstd
DecryptStart ==
    /\ pc = "start"
    /\ inv.command = "decrypt"
    /\ LET r == decrypt_prepare(config, osenv, inv)
       IN  IF r.ok
           THEN /\ procs' = procs \o r.val
                /\ pc' = "wait_decrypt"
                /\ status' = "running"
           ELSE /\ procs' = procs
                /\ pc' = "exited"
                /\ status' = ExitStatus(r)
    /\ UNCHANGED <<yaml, config, job, fs, osenv, inv, warned, ret>>

\* app_decrypt from the return of zstd to its end: wait() handles the exit
\* code of zstd first and then waits for openssl, the process piped into it
DecryptDone ==
    /\ pc = "wait_decrypt"
    /\ wait_returns(Last(procs))
    /\ IF raises_error_return_code(Last(procs))
       THEN End("raised")
       ELSE /\ wait_returns(procs[Len(procs) - 1])
            /\ End(IF raises_error_return_code(procs[Len(procs) - 1])
                   THEN "raised" ELSE "exit0")
    /\ UNCHANGED <<yaml, config, job, fs, osenv, inv, warned, ret>>

\* app_list: the names of the locations, policies and profiles are printed
ListDone ==
    /\ pc = "start"
    /\ inv.command = "list"
    /\ End("exit0")
    /\ UNCHANGED <<yaml, config, job, fs, osenv, inv, warned, ret>>

----------------------------------------------------------------------------
(* __init__.py: the command functions of the package's own command line     *)
(* interface. Each reads the configuration from ctx.obj; cli_command,        *)
(* cli_prune, cli_archive, cli_decrypt and cli_list have the body of their   *)
(* counterpart in cli.py                                                     *)

\* cli_run up to the start of the backup: app_run without a dry run
cli_run_prepare(cfg, fsys, environ, i) ==
    LET r == resolve_profile_policy(cfg, i.name)
    IN  IF ~r.ok THEN r
        ELSE LET primaryLocationName == r.val.locations[1]
                 args == backup_args(cfg, fsys, i.name, i.groups, FALSE,
                                     r.val.profile, primaryLocationName)
                 primaryLocationEnv ==
                    get_execution_env(cfg, environ, primaryLocationName)
             IN  IF ~args.ok THEN args
                 ELSE IF ~primaryLocationEnv.ok THEN primaryLocationEnv
                 ELSE Ok(StartedProcess("restic", args.val,
                                        primaryLocationEnv.val, {0, 3}))

\* cli_execute up to the start of restic: restic is started without an
\* _ok_code argument
cli_execute_prepare(cfg, fsys, environ, i) ==
    LET location == get_location_arguments(cfg, fsys, i.location_name, FALSE)
        env == get_execution_env(cfg, environ, i.location_name)
    IN  IF ~location.ok THEN location
        ELSE IF ~env.ok THEN env
        ELSE Ok(StartedProcess("restic", location.val \o i.args, env.val,
                               sh_ok_codes))

\* cli_snapshots up to the start of restic, started without an _ok_code
\* argument
cli_snapshots_prepare(cfg, fsys, environ, i) ==
    LET r == resolve_profile_policy(cfg, i.name)
    IN  IF ~r.ok THEN r
        ELSE LET location_name == OrStr(i.location_override, r.val.locations[1])
                 location == get_location_arguments(cfg, fsys, location_name,
                                                    FALSE)
                 tag == get_tag_arguments(cfg, i.name)
                 env == get_execution_env(cfg, environ, location_name)
             IN  IF ~location.ok THEN location
                 ELSE IF ~tag.ok THEN tag
                 ELSE Ok(StartedProcess(
                            "restic",
                            location.val \o <<"snapshots">> \o tag.val
                                \o (IF i.json THEN <<"--json">> ELSE <<>>),
                            env.val, sh_ok_codes))

\* cli_forget up to the start of restic for the first location: the forget
\* of app_apply without "--group-by", with the dry run of its own option
cli_forget_prepare(cfg, fsys, environ, i) ==
    LET r == resolve_profile_policy(cfg, i.name)
    IN  IF ~r.ok THEN r
        ELSE LET location_name == apply_locations(i, r.val.locations)[1]
                 location == get_location_arguments(cfg, fsys, location_name,
                                                    FALSE)
                 tag == get_tag_arguments(cfg, i.name)
                 env == get_execution_env(cfg, environ, location_name)
             IN  IF ~location.ok THEN location
                 ELSE IF ~tag.ok THEN tag
                 ELSE Ok(StartedProcess(
                            "restic",
                            location.val \o <<"forget">> \o tag.val
                                \o sh_args(get_retention_arguments(
                                            cfg, r.val.policy))
                                \o (IF i.dry_run THEN <<"--dry-run">> ELSE <<>>)
                                \o (IF i.prune THEN <<"--prune">> ELSE <<>>),
                            env.val, default_ok_codes))

\* cli_copy from its first line to its end: the source and the destination
\* are compared, the arguments and the environments of both are built, and
\* helper.assert_no_env_collision, a name helper.py does not define, is
\* read: AttributeError leaves the command before restic is started
cli_copy_prepare(cfg, fsys, environ, i) ==
    IF i.source = i.destination
    THEN print_error("Source and destination of copy can't be the same!")
    ELSE LET sourceArgs == get_location_arguments(cfg, fsys, i.source, TRUE)
             destinationArgs ==
                get_location_arguments(cfg, fsys, i.destination, FALSE)
             sourceEnv == get_execution_env(cfg, environ, i.source)
             destinationEnv == get_execution_env(cfg, environ, i.destination)
         IN  IF ~sourceArgs.ok THEN sourceArgs
             ELSE IF ~destinationArgs.ok THEN destinationArgs
             ELSE IF ~sourceEnv.ok THEN sourceEnv
             ELSE IF ~destinationEnv.ok THEN destinationEnv
             ELSE Raise("AttributeError: module 'spgill.backup.helper' has no "
                            \o "attribute 'assert_no_env_collision'")

\* the warnings cli_copy prints
cli_copy_warnings(cfg, fsys, i) ==
    IF i.source = i.destination THEN 0
    ELSE location_arguments_warnings(cfg, i.source)
         + (IF get_location_arguments(cfg, fsys, i.source, TRUE).ok
            THEN location_arguments_warnings(cfg, i.destination) ELSE 0)

\* cli_mount up to the start of restic, started without an _ok_code argument
cli_mount_prepare(cfg, fsys, environ, i) ==
    IF i.mount_point \notin fsys
    THEN print_error("Mount point does not exist")
    ELSE LET r == resolve_profile_policy(cfg, i.name)
         IN  IF ~r.ok THEN r
             ELSE LET location_name ==
                        OrStr(i.location_name, r.val.locations[1])
                      location_env ==
                        get_execution_env(cfg, environ, location_name)
                      location == get_location_arguments(cfg, fsys,
                                                         location_name, FALSE)
                      tag == get_tag_arguments(cfg, i.name)
                  IN  IF ~location_env.ok THEN location_env
                      ELSE IF ~location.ok THEN location
                      ELSE IF ~tag.ok THEN tag
                      ELSE Ok(StartedProcess(
                                "restic",
                                location.val \o <<"mount">> \o tag.val
                                    \o <<i.mount_point>>,
                                location_env.val, sh_ok_codes))

\* cli_run from its first line to the start of the backup
CliRunStart ==
    /\ pc = "start"
    /\ inv.command = "cli_run"
    /\ StartOrExit(cli_run_prepare(config, fs, osenv, inv), "wait_backup")
    /\ warned' = warned + run_prepare_warnings(config, inv)
    /\ UNCHANGED <<yaml, config, job, fs, osenv, inv, ret>>

\* cli_execute from its first line to the start of restic; ExecuteDone is
\* its "except sh.ErrorReturnCode"
CliExecuteStart ==
    /\ pc = "start"
    /\ inv.command = "cli_execute"
    /\ StartOrExit(cli_execute_prepare(config, fs, osenv, inv), "wait_execute")
    /\ warned' = warned + location_arguments_warnings(config, inv.location_name)
    /\ UNCHANGED <<yaml, config, job, fs, osenv, inv, ret>>

\* cli_command: the command line is written to stdout, or the command fails
\* before it writes
CliCommandDone ==
    /\ pc = "start"
    /\ inv.command = "cli_command"
    /\ LET r == command_line(config, fs, inv)
       IN  /\ ret' = IF r.ok THEN r ELSE ret
           /\ End(IF r.ok THEN "exit0" ELSE ExitStatus(r))
    /\ warned' = warned + location_arguments_warnings(config, inv.location_name)
    /\ UNCHANGED <<yaml, config, job, fs, osenv, inv>>

\* cli_snapshots from its first line to the start of restic
CliSnapshotsStart ==
    /\ pc = "start"
    /\ inv.command = "cli_snapshots"
    /\ StartOrExit(cli_snapshots_prepare(config, fs, osenv, inv), "wait_fg")
    /\ LET r == resolve_profile_policy(config, inv.name)
       IN  warned' = warned +
            (IF r.ok
             THEN location_arguments_warnings(
                    config, OrStr(inv.location_override, r.val.locations[1]))
             ELSE 0)
    /\ UNCHANGED <<yaml, config, job, fs, osenv, inv, ret>>

\* cli_forget from its first line to the start of the first restic forget
CliForgetStart ==
    /\ pc = "start"
    /\ inv.command = "cli_forget"
    /\ StartOrExit(cli_forget_prepare(config, fs, osenv, inv), "wait_apply")
    /\ warned' = warned + apply_warnings(config, fs, inv)
    /\ UNCHANGED <<yaml, config, job, fs, osenv, inv, ret>>

\* cli_prune from its first line to the start of restic
CliPruneStart ==
    /\ pc = "start"
    /\ inv.command = "cli_prune"
    /\ StartOrExit(prune_prepare(config, fs, osenv, inv), "wait")
    /\ warned' = warned + location_arguments_warnings(config, inv.location_name)
    /\ UNCHANGED <<yaml, config, job, fs, osenv, inv, ret>>

\* cli_archive from its first line to the start of the first snapshot query
CliArchiveStart ==
    /\ pc = "start"
    /\ inv.command = "cli_archive"
    /\ StartOrExit(archive_prepare(config, fs, osenv, inv), "archive_query")
    /\ LET r == resolve_profile_policy(config, inv.name)
       IN  warned' = warned +
            (IF r.ok /\ inv.tools_available
             THEN location_arguments_warnings(
                    config, OrStr(inv.location_override, r.val.locations[1]))
             ELSE 0)
    /\ UNCHANGED <<yaml, config, job, fs, osenv, inv, ret>>

\* cli_decrypt from its first line to the start of openssl and zstd
CliDecryptStart ==
    /\ pc = "start"
    /\ inv.command = "cli_decrypt"
    /\ LET r == decrypt_prepare(config, osenv, inv)
       IN  IF r.ok
           THEN /\ procs' = procs \o r.val
                /\ pc' = "wait_decrypt"
                /\ status' = "running"
           ELSE /\ procs' = procs
                /\ pc' = "exited"
                /\ status' = ExitStatus(r)
    /\ UNCHANGED <<yaml, config, job, fs, osenv, inv, warned, ret>>

\* cli_list: the names of the locations, policies and profiles are printed
CliListDone ==
    /\ pc = "start"
    /\ inv.command = "cli_list"
    /\ End("exit0")
    /\ UNCHANGED <<yaml, config, job, fs, osenv, inv, warned, ret>>

\* cli_copy from its first line to its end
CliCopyDone ==
    /\ pc = "start"
    /\ inv.command = "cli_copy"
    /\ End(ExitStatus(cli_copy_prepare(config, fs, osenv, inv)))
    /\ warned' = warned + cli_copy_warnings(config, fs, inv)
    /\ UNCHANGED <<yaml, config, job, fs, osenv, inv, ret>>

\* cli_mount from its first line to the start of restic
CliMountStart ==
    /\ pc = "start"
    /\ inv.command = "cli_mount"
    /\ StartOrExit(cli_mount_prepare(config, fs, osenv, inv), "wait_fg")
    /\ LET r == resolve_profile_policy(config, inv.name)
       IN  warned' = warned +
            (IF r.ok /\ inv.mount_point \in fs
             THEN location_arguments_warnings(
                    config, OrStr(inv.location_name, r.val.locations[1]))
             ELSE 0)
    /\ UNCHANGED <<yaml, config, job, fs, osenv, inv, ret>>


RunNext ==
    \/ ExecuteStart
    \/ ExecuteDone
    \/ RunStart
    \/ ProcExit
    \/ SnapshotsStart
    \/ MountStart
    \/ FgDone
    \/ ApplyStart
    \/ ArchiveStart
    \/ CopyStart
    \/ PruneStart
    \/ PruneDone
    \/ Interrupt
    \/ ForegroundInterrupt
    \/ InitStart
    \/ CommandDone
    \/ DecryptStart
    \/ DecryptDone
    \/ ListDone
    \/ CliRunStart
    \/ CliExecuteStart
    \/ CliCommandDone
    \/ CliSnapshotsStart
    \/ CliForgetStart
    \/ CliPruneStart
    \/ CliArchiveStart
    \/ CliDecryptStart
    \/ CliListDone
    \/ CliCopyDone
    \/ CliMountStart

SpecRun == RunInit /\ [][RunNext]_vars

\* the run command
IsRun == inv.command = "run"

\* the commands that resolve a profile
ProfileCommands == {"run", "snapshots", "apply", "archive", "mount"}

\* the policy's location is None, an empty string or an empty list
EmptyLocation(location) ==
    location \in {LocNone, LocStr(""), LocList(<<>>)}

\* the configuration document has the keys of a configuration and no other
WellFormed ==
    /\ RequiredRootFields \subseteq DOMAIN yaml
    /\ DOMAIN yaml \subseteq RootFields

\* the policy reference of the named profile as the document gives it
ConfiguredPolicy == NewProfile(yaml.profiles[inv.name]).val.policy

\* the named profile is absent, has no policy reference, refers to a policy
\* that is absent, or to one whose location is empty
CannotResolve ==
    \/ inv.name \notin DOMAIN yaml.profiles
    \/ ~TruthyStr(ConfiguredPolicy)
    \/ ConfiguredPolicy.val \notin DOMAIN yaml.policies
    \/ EmptyLocation(yaml.policies[ConfiguredPolicy.val].location)

\* C8: a command whose profile cannot be resolved ends with an error exit and
\* has launched no external process.
C8_ResolutionFailsFirst ==
    (inv.command \in ProfileCommands /\ WellFormed /\ CannotResolve) =>
        /\ procs = <<>>
        /\ pc # "start" => (pc = "exited" /\ status = "exit1")

\* the flags of the destination side and of the source side
ToFlags ==
    {location_option_names[o].to :
        o \in {"repo", "password_file", "password_command"}}
FromFlags ==
    {location_option_names[o].from :
        o \in {"repo", "password_file", "password_command"}}

\* a process that runs restic copy
IsCopy(proc) == FlagPositions(proc.args, {"copy"}) # {}

\* a process that runs restic init with the chunker parameters of a parent
IsInitFrom(proc) == FlagPositions(proc.args, {"--copy-chunker-params"}) # {}

\* C11: the flag spellings of a source-side call are disjoint from those of
\* a destination-side call, and in every command line built from both calls
\* (copy, and init with a parent) the destination flags stand before the
\* word copy or init, the source flags after it, and no repo or password
\* flag occurs twice.
C11_NoFlagTwice ==
    /\ ToFlags \cap FromFlags = {}
    /\ \A k \in 1..Len(procs) :
        (IsCopy(procs[k]) \/ IsInitFrom(procs[k])) =>
            LET args == procs[k].args
                at == CHOOSE c \in FlagPositions(args, {"copy", "init"}) : TRUE
            IN  /\ \A f \in ToFlags \cup FromFlags :
                    Cardinality(FlagPositions(args, {f})) <= 1
                /\ \A j \in FlagPositions(args, ToFlags) : j < at
                /\ \A j \in FlagPositions(args, FromFlags) : j > at
                /\ Cardinality(FlagPositions(args, {"--repo"})) = 1
                /\ Cardinality(FlagPositions(args, {"--from-repo"})) = 1

\* a copy command between a source with a password command and a destination
\* with a password file has started restic with a password flag of each side
C11_Witness ==
    /\ inv.command = "copy"
    /\ Len(procs) = 1
    /\ FlagPositions(procs[1].args, {"--from-password-command"}) # {}
    /\ FlagPositions(procs[1].args, {"--password-file"}) # {}

\* the commands that end by running restic in the foreground
ForegroundCommands == {"execute", "snapshots", "mount", "copy", "init"}

\* C25: for every command that ends by running an external command, once
\* that command has exited, the exit code of the tool's process equals the
\* exit code of that command; execute exits with the code restic returned,
\* whatever the code.
C25_ExitCodeMirrored ==
    (/\ inv.command \in ForegroundCommands
     /\ pc \in {"exited", "finished"}
     /\ procs # <<>>
     /\ Last(procs).state = "exited") =>
        status = "exit" \o ToString(Last(procs).code)

\* the path of the repository a process works on
RepoOf(proc) ==
    proc.args[(CHOOSE d \in FlagPositions(proc.args, {"--repo"}) : TRUE) + 1]

\* the locations the policy of the named profile names
PolicyLocationNames ==
    LET locations == get_policy_locations(yaml.policies[ConfiguredPolicy.val])
    IN  {locations[k] : k \in 1..Len(locations)}

\* the locations a run was told to use instead
OverrideNames ==
    {inv.locations_override.val[k] : k \in 1..Len(inv.locations_override.val)}

\* C26: a run that is given --location overrides executes the backup against
\* the overridden locations rather than the policy's primary location, and
\* performs no copy to secondary locations.
C26_BackupOnOverride ==
    (/\ IsRun
     /\ TruthySeq(inv.locations_override)
     /\ WellFormed
     /\ ~CannotResolve
     /\ PolicyLocationNames \cup OverrideNames \subseteq DOMAIN yaml.locations
     /\ "/pw" \in fs
     /\ pc # "start") =>
        /\ Len(procs) = 1
        /\ RepoOf(procs[1]) \in {yaml.locations[n].path : n \in OverrideNames}

\* C28: in run, when a location the policy names, primary or secondary, is
\* absent from the configuration's locations, the run fails before any
\* external process is started: no process is ever started, the backup for
\* the primary location included, and the run ends with an error.
C28_MissingLocationFailsFirst ==
    (/\ IsRun
     /\ WellFormed
     /\ ~CannotResolve
     /\ ~(PolicyLocationNames \subseteq DOMAIN yaml.locations)) =>
        /\ procs = <<>>
        /\ pc # "start" =>
            (pc = "exited" /\ status \in {"exit1", "raised"})

\* a run whose policy names a primary location that is configured and a
\* secondary location that is not has ended with an error, and no process
\* was started
C28_Witness ==
    /\ IsRun
    /\ WellFormed
    /\ ~CannotResolve
    /\ PolicyLocationNames = RunLocNames
    /\ DOMAIN yaml.locations = RunLocNames \ {LocName(MaxLocations)}
    /\ pc = "exited"
    /\ status \in {"exit1", "raised"}
    /\ procs = <<>>

\* C29: no copy between two repositories and no init with a parent is ever
\* started for two locations whose environment maps (clean_env if present,
\* else env) share a key: the pair is rejected before the process starts.
C29_NoCopyWithSharedKeys ==
    /\ (inv.command = "copy" /\ procs # <<>> /\ IsCopy(procs[1])) =>
        (DOMAIN EffectiveEnv(yaml.locations[inv.source]))
            \cap (DOMAIN EffectiveEnv(yaml.locations[inv.destination])) = {}
    /\ (inv.command = "init" /\ procs # <<>> /\ IsInitFrom(procs[1])) =>
        (DOMAIN EffectiveEnv(yaml.locations[inv.location_name]))
            \cap (DOMAIN EffectiveEnv(
                    yaml.locations[inv.parent_location_name.val])) = {}

----------------------------------------------------------------------------
(* SpecGroup: get_inclusion_arguments, and the run command that calls it,   *)
(* applied to the configurations, built from the classes of model.py, whose *)
(* profiles define sub-groups, an exclude_larger_than of either type, and    *)
(* flagged entries of several kinds beside those of the global profile       *)

\* the names of the sub-groups
GroupNames == {"g1", "g2"}

\* the source definition of a sub-group
GroupSourceDef(n) ==
    NewSourceDef([include |-> <<"i" \o n>>, exclude |-> <<"x" \o n>>]).val

\* the values of a profile's groups
GroupMaps ==
    {None,
     Some([n \in {"g1"} |-> GroupSourceDef(n)]),
     Some([n \in GroupNames |-> GroupSourceDef(n)])}

\* the global profiles of this specification
GroupGlobals ==
    {None, Some([exclude |-> <<"b">>, exclude_file |-> <<"b">>])}

\* the values of exclude_larger_than: a str, or an int held as its digits
SizeValues == {StrV(""), StrV("1M"), IntV("5"), IntV("0")}

\* a profile with these fields
GroupProfile(include, exclude, size, groups) ==
    [policy |-> Some("pol"), include |-> include, exclude |-> exclude,
     exclude_larger_than |-> size, groups |-> groups]

GroupInit ==
    /\ \E include \in {<<>>, <<"a">>},
          exclude \in SeqsUpTo({"a"}, MaxList),
          size \in SizeValues,
          groups \in GroupMaps,
          g \in GroupGlobals :
            yaml = Document([n \in ProfileNames |->
                        GroupProfile(include, exclude, size, groups)], g)
    /\ config = ModelObjects(yaml)
    /\ fs \in {InclPaths, InclPaths \ {"/cwd/b"}}
    /\ osenv = EmptyMap
    /\ \E group_names \in {<<>>, <<"g1">>, <<"g2">>} :
        \/ inv = [command |-> "get_inclusion_arguments",
                  profile_name |-> "p", group_names |-> group_names]
        \/ inv = [command |-> "run", name |-> "p", groups |-> group_names,
                  no_copy |-> FALSE, locations_override |-> None,
                  dry_run |-> FALSE]
    /\ pc = "start"
    /\ procs = <<>>
    /\ warned = 0
    /\ status = "running"
    /\ ret = None
    /\ job = None

GroupNext ==
    \/ CallGetInclusionArguments
    \/ RunStart

SpecGroup == GroupInit /\ [][GroupNext]_vars

\* the groups of the profile that the call selects: all of them for an empty
\* list of names, the named ones otherwise
SelectedGroups ==
    LET groups == config.profiles[inv.profile_name].groups
        defined == IF groups.none THEN {} ELSE DOMAIN groups.val
    IN  IF inv.group_names = <<>> THEN defined
        ELSE {n \in defined : \E k \in 1..Len(inv.group_names) :
                                    inv.group_names[k] = n}

\* the token t follows the flag in the tokens
HasPair(tokens, flag, t) ==
    \E i \in 1..(Len(tokens) - 1) : tokens[i] = flag /\ tokens[i + 1] = t

\* C13: get_inclusion_arguments produces tokens that hold the flags and
\* includes of every selected sub-group of the profile (all groups for an
\* empty list of names, the named groups otherwise) and of no other
\* sub-group.
C13_GroupsContribute ==
    Returned("get_inclusion_arguments") =>
        /\ ret.ok
        /\ LET groups == config.profiles[inv.profile_name].groups
           IN  \A n \in (IF groups.none THEN {} ELSE DOMAIN groups.val) :
                /\ \A k \in 1..Len(groups.val[n].exclude) :
                    HasPair(ret.val, "--exclude", groups.val[n].exclude[k])
                        <=> n \in SelectedGroups
                /\ \A k \in 1..Len(groups.val[n].include) :
                    (\E j \in 1..Len(ret.val) :
                        ret.val[j] = groups.val[n].include[k])
                        <=> n \in SelectedGroups

\* the flagged tokens one source definition yields by itself, in the order
\* of the fields
FlaggedTokens(sd) ==
    inclusion_tokens(fs, [NewSourceDef(sd).val EXCEPT !.include = <<>>]).val

\* the flagged tokens of the call's result: all but the includes
FlaggedPart == SubSeq(ret.val, 1, Len(ret.val) - Len(AllIncludes))

\* the source definition with the fields of a profile
AsSourceDef(profile) == [f \in SourceDefFields |-> profile[f]]

\* C14: get_inclusion_arguments produces tokens whose flagged tokens are
\* grouped per source definition in the order global profile, profile (the
\* selected groups after them): those of the global profile, each in the
\* order of the fields, stand before those of the profile.
C14_GroupedPerSourceDef ==
    (/\ Returned("get_inclusion_arguments")
     /\ config.profiles[inv.profile_name].exclude_larger_than.type = "str"
     /\ SelectedGroups = {}) =>
        /\ ret.ok
        /\ FlaggedPart =
            (IF config.global_profile.none THEN <<>>
             ELSE FlaggedTokens(AsSourceDef(GlobalP)))
            \o FlaggedTokens(AsSourceDef(config.profiles[inv.profile_name]))

\* the profile a call of get_inclusion_arguments or a run names
CalledProfile ==
    config.profiles[IF inv.command = "run" THEN inv.name ELSE inv.profile_name]

\* C15: when the profile's exclude_larger_than is an integer,
\* get_inclusion_arguments fails with an error and emits neither the flag
\* nor the value, and a run of that profile ends with an error without
\* having started the backup process.
C15_IntegerSizeFails ==
    CalledProfile.exclude_larger_than.type = "int" =>
        /\ Returned("get_inclusion_arguments") =>
            /\ ~ret.ok
            /\ status \in {"exit1", "raised"}
            /\ \A k \in 1..Len(ret.val) :
                ret.val[k] \notin {"--exclude-larger-than",
                                   CalledProfile.exclude_larger_than.val}
        /\ inv.command = "run" =>
            /\ procs = <<>>
            /\ pc # "start" =>
                (pc = "exited" /\ status \in {"exit1", "raised"})

\* get_inclusion_arguments was called for a profile whose exclude_larger_than
\* is the integer 5, and the call has failed
C15_Witness ==
    /\ Returned("get_inclusion_arguments")
    /\ CalledProfile.exclude_larger_than = IntV("5")
    /\ ~ret.ok
    /\ status \in {"exit1", "raised"}

----------------------------------------------------------------------------
(* SpecPolite: run_command_politely applied to a command line, an            *)
(* environment and a set of accepted exit codes; the child exits with any    *)
(* code, and the operator may interrupt the wait                             *)

\* the command lines, the environments and the accepted exit codes of the
\* calls of this specification
PoliteArgs ==
    {<<"prune">>, <<"--no-cache", "--repo", "/repo/l1", "prune">>,
     <<"--repo", "/repo/l1", "backup", "a">>}
PoliteEnvs == {EmptyMap, [PATH |-> "/bin"]}
PoliteOkCodes == {default_ok_codes, {0, 3}}

PoliteInit ==
    /\ yaml = default_config_contents
    /\ config = ModelObjects(yaml)
    /\ fs = {"/"}
    /\ osenv = [PATH |-> "/bin"]
    /\ \E args \in PoliteArgs, env \in PoliteEnvs, ok_codes \in PoliteOkCodes :
        inv = [command |-> "run_command_politely", args |-> args,
               env |-> env, ok_codes |-> ok_codes]
    /\ pc = "start"
    /\ procs = <<>>
    /\ warned = 0
    /\ status = "running"
    /\ ret = None
    /\ job = None

\* run_command_politely, "Start the command": the child runs in the
\* background
PoliteStart ==
    /\ pc = "start"
    /\ inv.command = "run_command_politely"
    /\ procs' = <<StartedProcess("restic", inv.args, inv.env, inv.ok_codes)>>
    /\ pc' = "wait"
    /\ UNCHANGED <<yaml, config, job, fs, osenv, inv, warned, status, ret>>

\* run_command_politely, running_proc.wait(): the call returns the process,
\* or ErrorReturnCode leaves it
PoliteWait ==
    /\ pc = "wait"
    /\ wait_returns(Last(procs))
    /\ IF raises_error_return_code(Last(procs))
       THEN /\ ret' = Raise("ErrorReturnCode")
            /\ pc' = "exited"
            /\ status' = "raised"
       ELSE /\ ret' = Ok(Last(procs))
            /\ pc' = "done"
            /\ status' = status
    /\ UNCHANGED <<yaml, config, job, fs, osenv, inv, procs, warned>>

PoliteNext ==
    \/ PoliteStart
    \/ ProcExit
    \/ PoliteWait
    \/ Interrupt

SpecPolite == PoliteInit /\ [][PoliteNext]_vars

\* the handler of the interrupt has made the process exit
Interrupted == pc = "exited" /\ status = "exit0"

\* C21: run_command_politely returns the completed process only when the
\* child's exit code is in the set the caller gave ({0} when none is given);
\* for any other exit code it raises, and nothing of the caller follows.
C21_BadExitCodeRaises ==
    /\ Returned("run_command_politely") =>
        /\ ret.ok
        /\ ret.val.state = "exited"
        /\ ret.val.code \in inv.ok_codes
    /\ \A k \in 1..Len(procs) :
        (procs[k].state = "exited" /\ procs[k].code \notin inv.ok_codes) =>
            \/ pc = "wait"
            \/ status = "raised" /\ ~ret.ok
            \/ Interrupted

\* a call with the default set whose child exited with code 3 has raised
C21_Witness ==
    /\ inv.command = "run_command_politely"
    /\ inv.ok_codes = default_ok_codes
    /\ Len(procs) = 1
    /\ procs[1].state = "exited"
    /\ procs[1].code = 3
    /\ status = "raised"
    /\ pc = "exited"

\* C22: when an operator interrupt arrives while run_command_politely waits
\* for its child, the child is not alive at the moment the calling process
\* exits: a child that is still alive is killed before the exit.
C22_ChildDeadAtExit ==
    (inv.command = "run_command_politely" /\ pc \in {"exited", "done"}) =>
        \A k \in 1..Len(procs) : procs[k].state # "running"

\* the interrupt arrived while the child was running, and the child was killed
C22_Witness ==
    /\ inv.command = "run_command_politely"
    /\ Interrupted
    /\ Len(procs) = 1
    /\ procs[1].state = "killed"

\* C23: an operator interrupt is never reported as success: a command that
\* the interrupt handler ended, its child killed or already dead, ends with
\* an exit status that is not zero.
C23_InterruptNotSuccess ==
    (\E k \in 1..Len(procs) : procs[k].state = "killed") => status # "exit0"


----------------------------------------------------------------------------
(* The daemon: app_daemon and the scheduler it starts. The scheduler is the  *)
(* blocking scheduler of APScheduler with the executor and the job defaults  *)
(* app_daemon gives it; time advances in minutes.                            *)

\* the last minute of the clock
MaxTicks == 3

\* the profiles of the documents of this specification, in the order of the
\* job store
DaemonProfiles == <<"p1", "p2">>

\* a faulty variant of max_workers: the pool has a thread for every profile
max_workers_per_profile == Len(DaemonProfiles)

\* app_daemon: ThreadPoolExecutor(1)
max_workers == 1

\* app_daemon: job_defaults "max_instances"
max_instances == 1

EveryMinute == "* * * * *"
EveryOtherMinute == "*/2 * * * *"

\* CronTrigger.from_crontab(schedule): the trigger fires at minute t
CronDue(schedule, t) ==
    IF schedule = EveryMinute THEN TRUE ELSE t % 2 = 0

\* the documents of this specification
DaemonDocuments ==
    {[locations |-> [n \in {"l1"} |-> RunLocation(1)],
      policies |->
        [n \in {"pa", "pb"} |->
            [BackupPolicy(LocStr("l1")) EXCEPT
                !.schedule = IF n = "pa" THEN sa ELSE sb]],
      profiles |->
        [n \in {"p1", "p2"} |->
            [policy |-> IF n = "p1" THEN pol1 ELSE pol2]],
      global_profile |-> None,
      archive |-> None, cache |-> None, v |-> None] :
        sa \in {None, Some(EveryMinute)},
        sb \in {None, Some(EveryMinute), Some(EveryOtherMinute)},
        pol1 \in {None, Some("pa")},
        pol2 \in {Some("pa"), Some("pb"), Some("nopol")}}

DaemonInit ==
    /\ \E doc \in DaemonDocuments :
        \/ AppMain(Some(doc), [command |-> "daemon"], {"/"})
        \/ CalledWithObjects(doc, [command |-> "daemon"], {"/"})
        \/ CliMain(Some(doc), [command |-> "cli_daemon"], {"/"})
        \/ CalledWithObjects(doc, [command |-> "cli_daemon"], {"/"})
    /\ osenv = [PATH |-> "/bin"]
    /\ procs = <<>>
    /\ ret = None
    /\ job = None

\* app_daemon: the policy of a profile, None for a profile without policy
daemon_policy(cfg, profile_name) ==
    IF IsDict(cfg.profiles[profile_name])
    THEN AttributeError("dict", "policy")
    ELSE IF TruthyStr(cfg.profiles[profile_name].policy)
    THEN get_policy(cfg, cfg.profiles[profile_name].policy.val)
    ELSE Ok(None)

\* app_daemon: a job is added for the profile
daemon_adds_job(cfg, profile_name) ==
    LET policy == daemon_policy(cfg, profile_name)
    IN  /\ policy.ok
        /\ "schedule" \in DOMAIN policy.val
        /\ TruthyStr(policy.val.schedule)

\* app_daemon: the schedule of the job of a profile
job_schedule(cfg, profile_name) ==
    daemon_policy(cfg, profile_name).val.schedule.val

\* app_daemon and cli_daemon, "Iterate through every defined profile" to
\* scheduler.start(): the first profile whose policy cannot be read ends the
\* command, no job ends it with a warning, and the scheduler starts with the
\* jobs of the profiles whose policy has a schedule
schedule_jobs ==
    /\ LET names == {DaemonProfiles[k] : k \in 1..Len(DaemonProfiles)}
           failing == {k \in 1..Len(DaemonProfiles) :
                        ~daemon_policy(config, DaemonProfiles[k]).ok}
           first == CHOOSE k \in failing : \A j \in failing : k <= j
           jobs == {n \in names : daemon_adds_job(config, n)}
       IN  IF failing # {}
           THEN /\ End(ExitStatus(daemon_policy(config, DaemonProfiles[first])))
                /\ UNCHANGED <<job, warned>>
           ELSE IF jobs = {}
           THEN End("exit0") /\ job' = job /\ warned' = warned + 1
           ELSE /\ pc' = "scheduling"
                /\ job' = [now |-> 0, queue |-> <<>>, running |-> <<>>,
                           instances |-> [n \in jobs |-> 0], skipped |-> 0]
                /\ warned' = warned + 1
                /\ UNCHANGED <<procs, status>>
    /\ UNCHANGED <<yaml, config, fs, osenv, inv, ret>>

\* app_daemon from its first line to scheduler.start()
DaemonStart ==
    /\ pc = "start"
    /\ inv.command = "daemon"
    /\ schedule_jobs

\* cli_daemon from its first line to scheduler.start(): the body of
\* app_daemon with cli_run as the function of a job; its job defaults name
\* no max_instances, which the scheduler then takes as 1
CliDaemonStart ==
    /\ pc = "start"
    /\ inv.command = "cli_daemon"
    /\ schedule_jobs

\* the scheduler hands the due jobs to the executor one after the other: a
\* job that has max_instances instances submitted or running is skipped
RECURSIVE submit_jobs(_, _)
submit_jobs(sched, due) ==
    IF due = <<>> THEN sched
    ELSE LET id == Head(due)
         IN  IF sched.instances[id] >= max_instances
             THEN submit_jobs([sched EXCEPT !.skipped = @ + 1], Tail(due))
             ELSE submit_jobs(
                    [sched EXCEPT !.instances[id] = @ + 1,
                                  !.queue = Append(@, id)],
                    Tail(due))

\* the jobs whose trigger fires at minute t, in the order of the job store
due_jobs(cfg, sched, t) ==
    SelectSeq(DaemonProfiles,
              LAMBDA n : /\ n \in DOMAIN sched.instances
                         /\ CronDue(job_schedule(cfg, n), t))

\* the clock reaches the next minute and the scheduler processes the jobs
\* that are due
Tick ==
    /\ pc = "scheduling"
    /\ job.now < MaxTicks
    /\ job' = submit_jobs([job EXCEPT !.now = @ + 1],
                          due_jobs(config, job, job.now + 1))
    /\ UNCHANGED <<yaml, config, fs, osenv, inv, pc, procs, warned, status, ret>>

\* a free thread of the pool takes the next submitted job and calls the
\* function of the job, app_run or cli_run
WorkerStart ==
    /\ pc = "scheduling"
    /\ Len(job.running) < max_workers
    /\ job.queue # <<>>
    /\ job' = [job EXCEPT !.running = Append(@, Head(job.queue)),
                          !.queue = Tail(@)]
    /\ UNCHANGED <<yaml, config, fs, osenv, inv, pc, procs, warned, status, ret>>

\* the call of a thread ends, by the exception get_profile raises or by the
\* exit of print_error, and the executor releases the instance of the job
RunDone ==
    /\ pc = "scheduling"
    /\ \E k \in 1..Len(job.running) :
        job' = [job EXCEPT
                    !.running = SubSeq(@, 1, k - 1) \o SubSeq(@, k + 1, Len(@)),
                    !.instances[job.running[k]] = @ - 1]
    /\ UNCHANGED <<yaml, config, fs, osenv, inv, pc, procs, warned, status, ret>>

\* app_daemon, "except KeyboardInterrupt": the scheduler stops and the
\* process exits
DaemonInterrupt ==
    /\ pc = "scheduling"
    /\ pc' = "exited"
    /\ status' = "exit0"
    /\ warned' = warned + 1
    /\ UNCHANGED <<yaml, config, job, fs, osenv, inv, procs, ret>>

DaemonNext ==
    \/ DaemonStart
    \/ CliDaemonStart
    \/ Tick
    \/ WorkerStart
    \/ RunDone
    \/ DaemonInterrupt

SpecDaemon == DaemonInit /\ [][DaemonNext]_vars

\* C24: in the daemon at most one scheduled run executes at any time: of two
\* jobs due at the same instant, or of a job due while another run executes,
\* the later one waits until the running one has ended; a job whose previous
\* instance is still submitted or running is skipped, never run a second
\* time in parallel.
C24_OneRunAtATime ==
    pc = "scheduling" =>
        /\ Len(job.running) <= 1
        /\ \A n \in DOMAIN job.instances :
            /\ job.instances[n] <= 1
            /\ job.instances[n] =
                    Cardinality({k \in 1..Len(job.running) : job.running[k] = n})
                    + Cardinality({k \in 1..Len(job.queue) : job.queue[k] = n})

C24_Witness ==
    /\ pc = "scheduling"
    /\ job.running = <<"p1">>
    /\ job.queue = <<"p2">>
    /\ job.skipped >= 1


====
